---- MODULE Spec2Model ----
(***************************************************************************)
(* A model of the GNSS streaming transport of ubxlib (u_gnss_private.c):   *)
(* the UBX / NMEA / RTCM frame parsers, the message-id matching, the       *)
(* stream filler, the ring-buffer decoder, the message receiver and the    *)
(* UBX command/response driver with its transport mutex.                   *)
(*                                                                         *)
(* Bytes are numbers 0..255, a buffer is a sequence of bytes.  Time is the *)
(* millisecond tick of uPortGetTickTimeMs(); code between two suspension   *)
(* points is one step, time passes between steps.                          *)
(***************************************************************************)
EXTENDS Integers, Sequences, FiniteSets, TLC

(***************************************************************************)
(* Error codes (u_error_common.h, u_gnss_type.h): only their sign and      *)
(* their being distinct matter to the code modelled here.                  *)
(***************************************************************************)
U_ERROR_COMMON_SUCCESS == 0
U_ERROR_COMMON_UNKNOWN == -1
U_ERROR_COMMON_NOT_SUPPORTED == -4
U_ERROR_COMMON_INVALID_PARAMETER == -5
U_ERROR_COMMON_NO_MEMORY == -6
U_ERROR_COMMON_PLATFORM == -8
U_ERROR_COMMON_TIMEOUT == -9
U_ERROR_COMMON_NOT_FOUND == -11
U_GNSS_ERROR_TRANSPORT == -1024
U_GNSS_ERROR_NACK == -1025

U_UBX_PROTOCOL_HEADER_LENGTH_BYTES == 6
U_UBX_PROTOCOL_OVERHEAD_LENGTH_BYTES == 8
U_GNSS_NMEA_MESSAGE_MATCH_LENGTH_CHARACTERS == 8
U_GNSS_UBX_MESSAGE_ID_ALL == 255
U_GNSS_UBX_MESSAGE_CLASS_ALL == 255

(***************************************************************************)
(* Bit operations on naturals.                                             *)
(***************************************************************************)
RECURSIVE BitXor(_, _)
BitXor(a, b) ==
    IF a = 0 THEN b
    ELSE IF b = 0 THEN a
    ELSE (((a % 2) + (b % 2)) % 2) + 2 * BitXor(a \div 2, b \div 2)

RECURSIVE BitAnd(_, _)
BitAnd(a, b) ==
    IF a = 0 \/ b = 0 THEN 0
    ELSE ((a % 2) * (b % 2)) + 2 * BitAnd(a \div 2, b \div 2)

RECURSIVE BitOr(_, _)
BitOr(a, b) ==
    IF a = 0 THEN b
    ELSE IF b = 0 THEN a
    ELSE (IF (a % 2) + (b % 2) > 0 THEN 1 ELSE 0) + 2 * BitOr(a \div 2, b \div 2)

Min(a, b) == IF a < b THEN a ELSE b
Max(a, b) == IF a < b THEN b ELSE a

\* The tail of s from (1-based) position n on.
Drop(s, n) == SubSeq(s, n + 1, Len(s))
\* The first n elements of s (all of s when it is shorter).
Take(s, n) == SubSeq(s, 1, Min(n, Len(s)))

(***************************************************************************)
(* Message ids: uGnssPrivateMessageId_t, a type tag and the id of each     *)
(* protocol.  The C type is a union; only the arm the tag selects is read. *)
(***************************************************************************)
MsgId(t, u, n, r) == [type |-> t, ubx |-> u, nmea |-> n, rtcm |-> r]
UbxId(u) == MsgId("UBX", u, <<>>, 0)
NmeaId(n) == MsgId("NMEA", 0, n, 0)
RtcmId(r) == MsgId("RTCM", 0, <<>>, r)
UnknownId == MsgId("UNKNOWN", 0, <<>>, 0)

\* The result of one parser: its return code, the bytes it consumed and
\* the id it wrote to the caller's message id.
ParseResult(rc, n, id) == [rc |-> rc, parsed |-> n, id |-> id]

(***************************************************************************)
(* uGnssPrivateParseUbx: s holds the bytes available at the cursor.        *)
(***************************************************************************)
\* cka += by; ckb += cka over the bytes of s, both uint8_t.
RECURSIVE UbxChecksum(_, _, _)
UbxChecksum(s, cka, ckb) ==
    IF s = <<>> THEN <<cka, ckb>>
    ELSE LET a == (cka + s[1]) % 256
         IN UbxChecksum(Tail(s), a, (ckb + a) % 256)

\* Faulty variants of the parser below (not part of the model): without
\* the checksum comparison, with the frame length as return value, with the
\* message id taken as the whole id, and with not-found for a short input.
ParseUbxVariant(s, verify, lengthAsResult, wholeId) ==
    IF Len(s) < 1 THEN ParseResult(U_ERROR_COMMON_TIMEOUT, 0, UnknownId)
    ELSE IF s[1] # 181 THEN ParseResult(U_ERROR_COMMON_NOT_FOUND, 1, UnknownId)
    ELSE IF Len(s) < 2 THEN ParseResult(U_ERROR_COMMON_TIMEOUT, 1, UnknownId)
    ELSE IF s[2] # 98 THEN ParseResult(U_ERROR_COMMON_NOT_FOUND, 2, UnknownId)
    ELSE IF Len(s) < 6 THEN ParseResult(U_ERROR_COMMON_TIMEOUT, 2, UnknownId)
    ELSE LET l == s[5] + 256 * s[6]
             id == [UnknownId EXCEPT !.ubx = IF wholeId THEN 256 * s[3] + s[4] ELSE s[4]]
         IN IF Len(s) < 8 + l THEN ParseResult(U_ERROR_COMMON_TIMEOUT, Len(s), id)
            ELSE IF verify /\ <<s[7 + l], s[8 + l]>> # UbxChecksum(SubSeq(s, 3, 6 + l), 0, 0)
                THEN ParseResult(U_ERROR_COMMON_NOT_FOUND, 8 + l, id)
            ELSE ParseResult(IF lengthAsResult THEN 8 + l ELSE U_ERROR_COMMON_SUCCESS,
                             8 + l, [id EXCEPT !.type = "UBX"])

ParseUbxNoChecksum(s) == ParseUbxVariant(s, FALSE, FALSE, TRUE)

ParseUbxReturnsLength(s) == ParseUbxVariant(s, TRUE, TRUE, TRUE)

ParseUbxMessageIdOnly(s) == ParseUbxVariant(s, TRUE, FALSE, FALSE)

ParseUbxShortIsNotFound(s) ==
    LET r == ParseUbxVariant(s, TRUE, FALSE, TRUE)
    IN IF r.rc = U_ERROR_COMMON_TIMEOUT THEN [r EXCEPT !.rc = U_ERROR_COMMON_NOT_FOUND] ELSE r

uGnssPrivateParseUbx(s) ==
    IF Len(s) < 1 THEN ParseResult(U_ERROR_COMMON_TIMEOUT, 0, UnknownId)
    ELSE IF s[1] # 181 THEN ParseResult(U_ERROR_COMMON_NOT_FOUND, 1, UnknownId)
    ELSE IF Len(s) < 2 THEN ParseResult(U_ERROR_COMMON_TIMEOUT, 1, UnknownId)
    ELSE IF s[2] # 98 THEN ParseResult(U_ERROR_COMMON_NOT_FOUND, 2, UnknownId)
    ELSE IF 4 > Len(s) - 2 THEN ParseResult(U_ERROR_COMMON_TIMEOUT, 2, UnknownId)
    ELSE LET l == s[5] + 256 * s[6]
             id == [UnknownId EXCEPT !.ubx = 256 * s[3] + s[4]]
         IN IF l > Len(s) - 6 THEN ParseResult(U_ERROR_COMMON_TIMEOUT, 6, id)
            ELSE LET ck == UbxChecksum(SubSeq(s, 3, 6 + l), 0, 0)
                 IN IF Len(s) < 7 + l
                        THEN ParseResult(U_ERROR_COMMON_TIMEOUT, 6 + l, id)
                    ELSE IF s[7 + l] # ck[1]
                        THEN ParseResult(U_ERROR_COMMON_NOT_FOUND, 7 + l, id)
                    ELSE IF Len(s) < 8 + l
                        THEN ParseResult(U_ERROR_COMMON_TIMEOUT, 7 + l, id)
                    ELSE IF s[8 + l] # ck[2]
                        THEN ParseResult(U_ERROR_COMMON_NOT_FOUND, 8 + l, id)
                    ELSE ParseResult(U_ERROR_COMMON_SUCCESS, 8 + l,
                                     [id EXCEPT !.type = "UBX"])

(***************************************************************************)
(* uGnssPrivateParseNmea.                                                  *)
(***************************************************************************)
\* Faulty variants of the three definitions below (not part of the model):
\* lower-case hex digits, a token loop without the length limit and a data
\* loop without the range check.
HexDigitLower(n) == IF n < 10 THEN 48 + n ELSE 87 + n

RECURSIVE NmeaTokenNoLimit(_, _, _, _)
NmeaTokenNoLimit(s, pos, crc, tok) ==
    IF pos > Len(s) THEN [pos |-> pos, crc |-> crc, tok |-> tok, how |-> "end"]
    ELSE LET ch == s[pos]
             c == BitXor(crc, ch)
         IN IF ch = 44 THEN [pos |-> pos + 1, crc |-> c, tok |-> tok, how |-> "comma"]
            ELSE IF (48 > ch) \/ (90 < ch) \/ ((57 < ch) /\ (65 > ch))
                THEN [pos |-> pos + 1, crc |-> c, tok |-> tok, how |-> "bad"]
            ELSE NmeaTokenNoLimit(s, pos + 1, c, Append(tok, ch))

RECURSIVE NmeaDataNoRange(_, _, _)
NmeaDataNoRange(s, pos, crc) ==
    IF pos > Len(s) THEN [pos |-> pos, crc |-> crc, how |-> "end"]
    ELSE LET ch == s[pos]
         IN IF ch = 42 THEN [pos |-> pos + 1, crc |-> crc, how |-> "star"]
            ELSE NmeaDataNoRange(s, pos + 1, BitXor(crc, ch))

HexDigit(n) == IF n < 10 THEN 48 + n ELSE 55 + n

\* The first loop (lines 688-700): the talker/sentence token up to ','.
\* Returns the position reached, the checksum, the token and how it ended:
\* "comma", "end" (no more bytes) or "bad" (not-found).
RECURSIVE NmeaToken(_, _, _, _)
NmeaToken(s, pos, crc, tok) ==
    IF pos > Len(s) THEN [pos |-> pos, crc |-> crc, tok |-> tok, how |-> "end"]
    ELSE LET ch == s[pos]
             c == BitXor(crc, ch)
         IN IF ch = 44 THEN [pos |-> pos + 1, crc |-> c, tok |-> tok, how |-> "comma"]
            ELSE IF Len(tok) >= U_GNSS_NMEA_MESSAGE_MATCH_LENGTH_CHARACTERS
                THEN [pos |-> pos + 1, crc |-> c, tok |-> tok, how |-> "bad"]
            ELSE IF (48 > ch) \/ (90 < ch) \/ ((57 < ch) /\ (65 > ch))
                THEN [pos |-> pos + 1, crc |-> c, tok |-> tok, how |-> "bad"]
            ELSE NmeaToken(s, pos + 1, c, Append(tok, ch))

\* The second loop (lines 702-710): the data up to '*'.
RECURSIVE NmeaData(_, _, _)
NmeaData(s, pos, crc) ==
    IF pos > Len(s) THEN [pos |-> pos, crc |-> crc, how |-> "end"]
    ELSE LET ch == s[pos]
         IN IF (32 > ch) \/ (126 < ch) THEN [pos |-> pos + 1, crc |-> crc, how |-> "bad"]
            ELSE IF ch = 42 THEN [pos |-> pos + 1, crc |-> crc, how |-> "star"]
            ELSE NmeaData(s, pos + 1, BitXor(crc, ch))

uGnssPrivateParseNmea(s) ==
    IF Len(s) < 1 THEN ParseResult(U_ERROR_COMMON_TIMEOUT, 0, UnknownId)
    ELSE IF s[1] # 36 THEN ParseResult(U_ERROR_COMMON_NOT_FOUND, 1, UnknownId)
    ELSE LET t == NmeaToken(s, 2, 0, <<>>)
             id == [UnknownId EXCEPT !.nmea = t.tok]
         IN IF t.how = "bad" THEN ParseResult(U_ERROR_COMMON_NOT_FOUND, t.pos - 1, id)
            ELSE LET d == NmeaData(s, t.pos, t.crc)
                     p == d.pos
                 IN IF d.how = "bad"
                        THEN ParseResult(U_ERROR_COMMON_NOT_FOUND, p - 1, id)
                    ELSE IF Len(s) < p
                        THEN ParseResult(U_ERROR_COMMON_TIMEOUT, p - 1, id)
                    ELSE IF HexDigit(BitAnd(d.crc \div 16, 15)) # s[p]
                        THEN ParseResult(U_ERROR_COMMON_NOT_FOUND, p, id)
                    ELSE IF Len(s) < p + 1
                        THEN ParseResult(U_ERROR_COMMON_TIMEOUT, p, id)
                    ELSE IF HexDigit(BitAnd(d.crc, 15)) # s[p + 1]
                        THEN ParseResult(U_ERROR_COMMON_NOT_FOUND, p + 1, id)
                    ELSE IF Len(s) < p + 2
                        THEN ParseResult(U_ERROR_COMMON_TIMEOUT, p + 1, id)
                    ELSE IF s[p + 2] # 13
                        THEN ParseResult(U_ERROR_COMMON_NOT_FOUND, p + 2, id)
                    ELSE IF Len(s) < p + 3
                        THEN ParseResult(U_ERROR_COMMON_TIMEOUT, p + 2, id)
                    ELSE IF s[p + 3] # 10
                        THEN ParseResult(U_ERROR_COMMON_NOT_FOUND, p + 3, id)
                    ELSE ParseResult(U_ERROR_COMMON_SUCCESS, p + 3,
                                     [id EXCEPT !.type = "NMEA"])

(***************************************************************************)
(* uGnssPrivateParseRtcm.                                                  *)
(***************************************************************************)
crc24qTable == <<
    0, 8801531, 9098509, 825846, 9692897, 1419802, 1651692, 10452759,
    10584377, 2608578, 2839604, 11344079, 3303384, 11807523, 12104405, 4128302,
    12930697, 4391538, 5217156, 13227903, 5679208, 13690003, 14450021, 5910942,
    6606768, 14844747, 15604413, 6837830, 16197969, 7431594, 8256604, 16494759,
    840169, 9084178, 8783076, 18463, 10434312, 1670131, 1434117, 9678590,
    11358416, 2825259, 2590173, 10602790, 4109873, 12122826, 11821884, 3289031,
    13213536, 5231515, 4409965, 12912278, 5929345, 14431610, 13675660, 5693559,
    6823513, 15618722, 14863188, 6588335, 16513208, 8238147, 7417269, 16212302,
    1680338, 10481449, 9664223, 1391140, 9061683, 788936, 36926, 8838341,
    12067563, 4091408, 3340262, 11844381, 2868234, 11372785, 10555655, 2579964,
    14478683, 5939616, 5650518, 13661357, 5180346, 13190977, 12967607, 4428364,
    8219746, 16457881, 16234863, 7468436, 15633027, 6866552, 6578062, 14816117,
    1405499, 9649856, 10463030, 1698765, 8819930, 55329, 803287, 9047340,
    11858690, 3325945, 4072975, 12086004, 2561507, 10574104, 11387118, 2853909,
    13647026, 5664841, 5958079, 14460228, 4446803, 12949160, 13176670, 5194661,
    7454091, 16249200, 16476294, 8201341, 14834538, 6559633, 6852199, 15647388,
    3360676, 11864927, 12161705, 4185682, 10527045, 2551230, 2782280, 11286707,
    9619101, 1346150, 1577872, 10379115, 73852, 8875143, 9172337, 899466,
    16124205, 7357910, 8182816, 16421083, 6680524, 14918455, 15678145, 6911546,
    5736468, 13747439, 14507289, 5968354, 12873461, 4334094, 5159928, 13170435,
    4167245, 12180150, 11879232, 3346363, 11301036, 2767959, 2532769, 10545498,
    10360692, 1596303, 1360505, 9604738, 913813, 9157998, 8856728, 92259,
    16439492, 8164415, 7343561, 16138546, 6897189, 15692510, 14936872, 6662099,
    5986813, 14488838, 13733104, 5750795, 13156124, 5174247, 4352529, 12855018,
    2810998, 11315341, 10498427, 2522496, 12124823, 4148844, 3397530, 11901793,
    9135439, 862644, 110658, 8912057, 1606574, 10407765, 9590435, 1317464,
    15706879, 6940164, 6651890, 14889737, 8145950, 16384229, 16161043, 7394792,
    5123014, 13133629, 12910283, 4370992, 14535975, 5997020, 5707818, 13718737,
    2504095, 10516836, 11329682, 2796649, 11916158, 3383173, 4130419, 12143240,
    8893606, 129117, 876971, 9121104, 1331783, 9576124, 10389322, 1625009,
    14908182, 6633453, 6925851, 15721184, 7380471, 16175372, 16402682, 8127489,
    4389423, 12891860, 13119266, 5137369, 13704398, 5722165, 6015427, 14517560
>>

\* RTCM_CRC(crc, by): ((crc << 8) | by) ^ table[(crc >> 16) & 0xff] on a
\* uint32_t.  Bits 24..31 of the register never reach the table index nor
\* the final (crc & 0xFFFFFF) test, so the register is kept to 24 bits.
RTCM_CRC(crc, by) ==
    BitXor(BitOr((crc % 65536) * 256, by),
           crc24qTable[BitAnd(crc \div 65536, 255) + 1])

RECURSIVE RtcmCrcOver(_, _)
RtcmCrcOver(s, crc) ==
    IF s = <<>> THEN crc ELSE RtcmCrcOver(Tail(s), RTCM_CRC(crc, s[1]))

uGnssPrivateParseRtcm(s) ==
    IF Len(s) < 1 THEN ParseResult(U_ERROR_COMMON_TIMEOUT, 0, UnknownId)
    ELSE IF s[1] # 211 THEN ParseResult(U_ERROR_COMMON_NOT_FOUND, 1, UnknownId)
    ELSE IF Len(s) < 2 THEN ParseResult(U_ERROR_COMMON_TIMEOUT, 1, UnknownId)
    ELSE IF BitAnd(252, s[2]) # 0 THEN ParseResult(U_ERROR_COMMON_NOT_FOUND, 2, UnknownId)
    ELSE IF Len(s) < 3 THEN ParseResult(U_ERROR_COMMON_TIMEOUT, 2, UnknownId)
    ELSE LET l == BitAnd(s[2], 3) * 256 + s[3] + 2
         IN IF Len(s) < 4 THEN ParseResult(U_ERROR_COMMON_TIMEOUT, 3, UnknownId)
            ELSE IF Len(s) < 5 THEN ParseResult(U_ERROR_COMMON_TIMEOUT, 4, UnknownId)
            ELSE LET idLo == s[4]
                     idHi == s[5]
                     id == [UnknownId EXCEPT !.rtcm = (idHi \div 16) + idLo * 16]
                 IN IF l > Len(s) - 5
                        THEN ParseResult(U_ERROR_COMMON_TIMEOUT, 5, id)
                    ELSE IF BitAnd(RtcmCrcOver(SubSeq(s, 4, 5 + l), 0), 16777215) # 0
                        THEN ParseResult(U_ERROR_COMMON_NOT_FOUND, 5 + l, id)
                    ELSE ParseResult(U_ERROR_COMMON_SUCCESS, 5 + l,
                                     [id EXCEPT !.type = "RTCM"])

(***************************************************************************)
(* Message-id matching.                                                    *)
(***************************************************************************)
\* Faulty variants of the three definitions below (not part of the model):
\* an NMEA match without the '?' wildcard, a UBX match where 0xFF in the
\* actual id is a wildcard too, and a match where ALL takes UNKNOWN items.
RECURSIVE NmeaIdMatchNoWildcard(_, _)
NmeaIdMatchNoWildcard(pNmeaIdActual, pNmeaIdWanted) ==
    IF pNmeaIdWanted = <<>> THEN TRUE
    ELSE IF pNmeaIdActual = <<>> THEN FALSE
    ELSE IF pNmeaIdWanted[1] # pNmeaIdActual[1] THEN FALSE
    ELSE NmeaIdMatchNoWildcard(Tail(pNmeaIdActual), Tail(pNmeaIdWanted))

UbxIdMatchSymmetric(ubxIdActual, ubxIdWanted) ==
    /\ \/ ubxIdWanted % 256 = 255 \/ ubxIdActual % 256 = 255
       \/ ubxIdWanted % 256 = ubxIdActual % 256
    /\ \/ ubxIdWanted \div 256 = 255 \/ ubxIdActual \div 256 = 255
       \/ ubxIdWanted \div 256 = ubxIdActual \div 256

IsWantedAllTakesUnknown(pMessageId, pMessageIdWanted) ==
    \/ pMessageIdWanted.type \in {"ANY", "ALL"}
    \/ pMessageIdWanted = pMessageId

\* The wanted id has to match the whole of the actual id, not its start.
RECURSIVE NmeaIdMatchWholeId(_, _)
NmeaIdMatchWholeId(pNmeaIdActual, pNmeaIdWanted) ==
    IF pNmeaIdWanted = <<>> THEN pNmeaIdActual = <<>>
    ELSE IF pNmeaIdActual = <<>> THEN FALSE
    ELSE IF (pNmeaIdWanted[1] # 63) /\ (pNmeaIdWanted[1] # pNmeaIdActual[1]) THEN FALSE
    ELSE NmeaIdMatchWholeId(Tail(pNmeaIdActual), Tail(pNmeaIdWanted))

\* nmeaIdMatch: both arguments are null-terminated strings, modelled as the
\* sequence of their characters before the terminator.
RECURSIVE nmeaIdMatch(_, _)
nmeaIdMatch(pNmeaIdActual, pNmeaIdWanted) ==
    IF pNmeaIdWanted = <<>> THEN TRUE
    ELSE IF pNmeaIdActual = <<>> THEN FALSE
    ELSE IF (pNmeaIdWanted[1] # 63) /\ (pNmeaIdWanted[1] # pNmeaIdActual[1]) THEN FALSE
    ELSE nmeaIdMatch(Tail(pNmeaIdActual), Tail(pNmeaIdWanted))

\* ubxIdMatch: 0xFF in a byte of the wanted id is a wildcard for that byte.
ubxIdMatch(ubxIdActual, ubxIdWanted) ==
    LET a1 == IF BitAnd(ubxIdWanted, U_GNSS_UBX_MESSAGE_ID_ALL) = U_GNSS_UBX_MESSAGE_ID_ALL
                 THEN BitOr(ubxIdActual, U_GNSS_UBX_MESSAGE_ID_ALL)
                 ELSE ubxIdActual
        a2 == IF BitAnd(ubxIdWanted, U_GNSS_UBX_MESSAGE_CLASS_ALL * 256)
                     = U_GNSS_UBX_MESSAGE_CLASS_ALL * 256
                 THEN BitOr(a1, U_GNSS_UBX_MESSAGE_CLASS_ALL * 256)
                 ELSE a1
    IN a2 = ubxIdWanted

uGnssPrivateMessageIdIsWanted(pMessageId, pMessageIdWanted) ==
    IF pMessageIdWanted.type = "ANY" THEN TRUE
    ELSE IF (pMessageIdWanted.type = "ALL") /\ (pMessageId.type # "UNKNOWN") THEN TRUE
    ELSE IF (pMessageIdWanted.type = "UNKNOWN") /\ (pMessageId.type = "UNKNOWN") THEN TRUE
    ELSE IF (pMessageIdWanted.type = "RTCM") /\ (pMessageId.type = "RTCM")
        THEN pMessageId.rtcm = pMessageIdWanted.rtcm
    ELSE IF (pMessageIdWanted.type = "NMEA") /\ (pMessageId.type = "NMEA")
        THEN nmeaIdMatch(pMessageId.nmea, pMessageIdWanted.nmea)
    ELSE IF (pMessageIdWanted.type = "UBX") /\ (pMessageId.type = "UBX")
        THEN ubxIdMatch(pMessageId.ubx, pMessageIdWanted.ubx)
    ELSE FALSE

(***************************************************************************)
(* The ring buffer (u_ring_buffer.c), as the GNSS code uses it.  The       *)
(* buffer is modelled by what each read handle has still to read: a        *)
(* function from handles to byte sequences, the newest byte last.          *)
(***************************************************************************)
\* The parsers in the order of parserList[] (lines 1275-1280): the first
\* one that does not answer not-found decides.
TryParsers(s) ==
    LET u == uGnssPrivateParseUbx(s)
        n == uGnssPrivateParseNmea(s)
        r == uGnssPrivateParseRtcm(s)
    IN IF u.rc # U_ERROR_COMMON_NOT_FOUND THEN u
       ELSE IF n.rc # U_ERROR_COMMON_NOT_FOUND THEN n
       ELSE r

\* uRingBufferParseHandle: tries the parsers at the read position; when
\* none recognises the data there, one byte is set aside and the parsers
\* are tried at the next position.  Bytes set aside are reported first, as
\* an item of unknown type; then a frame with its length and id; timeout
\* when more data is needed to decide.
RECURSIVE ParseScan(_, _)
ParseScan(s, d) ==
    IF d >= Len(s)
        THEN IF d > 0 THEN [len |-> d, id |-> UnknownId]
             ELSE [len |-> U_ERROR_COMMON_TIMEOUT, id |-> UnknownId]
    ELSE LET r == TryParsers(Drop(s, d))
         IN IF r.rc = U_ERROR_COMMON_NOT_FOUND THEN ParseScan(s, d + 1)
            ELSE IF d > 0 THEN [len |-> d, id |-> UnknownId]
            ELSE IF r.rc = U_ERROR_COMMON_SUCCESS THEN [len |-> r.parsed, id |-> r.id]
            ELSE [len |-> r.rc, id |-> UnknownId]

uRingBufferParseHandle(s) == ParseScan(s, 0)

\* uRingBufferReadHandle: up to n bytes are taken from the handle.
uRingBufferReadHandle(s, n) == [data |-> Take(s, n), rest |-> Drop(s, Min(n, Len(s)))]

(***************************************************************************)
(* uGnssPrivateStreamDecodeRingBuffer on the unread bytes s of the read    *)
(* handle: the return value, what is left on the handle, and the caller's  *)
(* message id afterwards.                                                  *)
(***************************************************************************)
DecodeResult(rc, rest, id) == [rc |-> rc, rest |-> rest, id |-> id]

\* Two faulty variants of the decoder, not part of the model: one that
\* treats a UBX-ACK-NACK like any other unwanted frame, and one that gives
\* up after the first unwanted frame instead of going on to the next.
RECURSIVE DecodeWithoutNack(_, _)
DecodeWithoutNack(s, pPrivateMessageId) ==
    LET p == uRingBufferParseHandle(s)
    IN IF p.len <= 0 THEN DecodeResult(p.len, s, pPrivateMessageId)
       ELSE IF uGnssPrivateMessageIdIsWanted(p.id, pPrivateMessageId)
           THEN DecodeResult(p.len, s, p.id)
       ELSE DecodeWithoutNack(uRingBufferReadHandle(s, p.len).rest, pPrivateMessageId)

DecodeOneFrameOnly(s, pPrivateMessageId) ==
    LET p == uRingBufferParseHandle(s)
    IN IF p.len <= 0 THEN DecodeResult(p.len, s, pPrivateMessageId)
       ELSE IF uGnssPrivateMessageIdIsWanted(p.id, pPrivateMessageId)
           THEN DecodeResult(p.len, s, p.id)
       ELSE DecodeResult(U_ERROR_COMMON_TIMEOUT, uRingBufferReadHandle(s, p.len).rest,
                         pPrivateMessageId)

\* A third: the id of every frame looked at is copied to the caller's id,
\* wanted or not.
RECURSIVE DecodeCopiesEveryId(_, _)
DecodeCopiesEveryId(s, pPrivateMessageId) ==
    LET p == uRingBufferParseHandle(s)
    IN IF p.len <= 0 THEN DecodeResult(p.len, s, pPrivateMessageId)
       ELSE IF uGnssPrivateMessageIdIsWanted(p.id, pPrivateMessageId)
           THEN DecodeResult(p.len, s, p.id)
       ELSE LET r == DecodeCopiesEveryId(uRingBufferReadHandle(s, p.len).rest,
                                         pPrivateMessageId)
            IN IF r.rc <= 0 THEN DecodeResult(r.rc, r.rest, p.id) ELSE r

RECURSIVE uGnssPrivateStreamDecodeRingBuffer(_, _)
uGnssPrivateStreamDecodeRingBuffer(s, pPrivateMessageId) ==
    LET p == uRingBufferParseHandle(s)
    IN IF p.len <= 0 THEN DecodeResult(p.len, s, pPrivateMessageId)
       ELSE IF uGnssPrivateMessageIdIsWanted(p.id, pPrivateMessageId)
           THEN DecodeResult(p.len, s, p.id)
       ELSE IF (pPrivateMessageId.type = "UBX") /\ (p.id.type = "UBX")
               /\ (p.id.ubx = 1280) /\ (p.len = 10)
           THEN LET rd == uRingBufferReadHandle(s, 10)
                    ubxId == 256 * rd.data[7] + rd.data[8]
                IN IF ubxIdMatch(ubxId, pPrivateMessageId.ubx)
                       THEN DecodeResult(U_GNSS_ERROR_NACK, rd.rest, pPrivateMessageId)
                   ELSE uGnssPrivateStreamDecodeRingBuffer(rd.rest, pPrivateMessageId)
       ELSE uGnssPrivateStreamDecodeRingBuffer(uRingBufferReadHandle(s, p.len).rest,
                                               pPrivateMessageId)

(***************************************************************************)
(* Bounds of the model.  The buffer sizes and fill times of the library    *)
(* are scaled down; the relations between them are kept (a frame can be    *)
(* longer than the temporary buffer, the ring buffer holds a few frames).  *)
(***************************************************************************)
RingBufferSize == 24        \* bytes the ring buffer can hold
TemporaryBufferLength == 8  \* U_GNSS_MSG_TEMPORARY_BUFFER_LENGTH_BYTES
UartBufferSize == 12        \* bytes the transport holds until they are read
MinFillTimeMs == 10         \* U_GNSS_RING_BUFFER_MIN_FILL_TIME_MS
MaxFillTimeMs == 20         \* U_GNSS_RING_BUFFER_MAX_FILL_TIME_MS
CallTimeoutMs == 30         \* the positive timeoutMs of a call
SmallSize == 4              \* a caller buffer smaller than every frame
TinySize == 2               \* a response buffer smaller than the body of FramePvt
TotalCap == 48              \* received totals above this are not told apart

\* uPortTaskBlock(10) at lines 1430 and 1657.
BlockMs == 10

(***************************************************************************)
(* Frames the device sends.                                                *)
(***************************************************************************)
\* uUbxProtocolEncode: B5 62 class id len-lo len-hi body ckA ckB.
UbxFrame(cls, id, body) ==
    LET m == <<cls, id, Len(body) % 256, Len(body) \div 256>> \o body
        ck == UbxChecksum(m, 0, 0)
    IN <<181, 98>> \o m \o <<ck[1], ck[2]>>

FramePvt == UbxFrame(1, 7, <<222, 173, 190, 239>>)   \* UBX-NAV-PVT, body DE AD BE EF
FrameNackPvt == UbxFrame(5, 0, <<1, 7>>)             \* UBX-ACK-NACK for 0x01 0x07
FrameNackOther == UbxFrame(5, 0, <<6, 1>>)           \* UBX-ACK-NACK for 0x06 0x01
FrameAckPvt == UbxFrame(5, 1, <<1, 7>>)              \* UBX-ACK-ACK for 0x01 0x07
FrameMonVer == UbxFrame(10, 4, <<>>)                 \* a UBX frame with no body
FrameClass5Other == UbxFrame(5, 2, <<1, 7>>)         \* class 0x05, neither ACK nor NACK
FrameAckLong == UbxFrame(5, 1, <<1, 7, 9>>)          \* class 0x05 id 0x01, 3-byte body
FrameNmea == <<36, 71, 44, 42, 54, 66, 13, 10>>      \* $G,*6B\r\n
Junk == <<0>>                                        \* a byte no parser knows

\* What the device sends during a call: nothing, a given sequence of
\* frames, or frames without end ("flood").
DeviceScript(dev) ==
    CASE dev = "pvt" -> <<FramePvt>>
      [] dev = "verpvt" -> <<FrameMonVer, FramePvt>>
      [] dev = "nack" -> <<FrameNackOther, FrameNackPvt>>
      [] dev = "mixed" -> <<FrameNmea, Junk, FramePvt>>
      [] dev = "ack" -> <<FrameAckPvt>>
      [] dev = "nackpvt" -> <<FrameNackPvt>>
      [] dev = "class5other" -> <<FrameClass5Other>>
      [] dev = "acklong" -> <<FrameAckLong>>
      [] OTHER -> <<>>

Devices == {"silent", "flood", "pvt", "verpvt", "nack", "mixed"}
FloodFrames == {FrameMonVer}

Handles == {"private", "msg"}

(***************************************************************************)
(* State.                                                                  *)
(***************************************************************************)
VARIABLES
    now,      \* uPortGetTickTimeMs()
    uartRx,   \* bytes the device has delivered and the MCU has not read yet
    ring,     \* per read handle, the bytes it has still to read
    locked,   \* per read handle, whether it is locked
    mutex,    \* pInstance->transportMutex: the task that holds it, or "none"
    pc,       \* where the application task is
    call,     \* the call in progress and its arguments
    rxArgs,   \* the arguments of uGnssPrivateReceiveStreamMessage
    rx,       \* its local variables, *ppBuffer and *pPrivateMessageId
    fill,     \* the local variables of uGnssPrivateStreamFillRingBuffer
    ret,      \* the value returned to the caller
    resp,     \* what sendReceiveUbxMessage leaves in the response body
    hist,     \* what has happened in the call (observations, not program state)
    tasks,    \* the tasks that share the transport, each a position and a call
    script    \* the frames the device has still to send

vars == <<now, uartRx, ring, locked, mutex, pc, call, rxArgs, rx, fill, ret, resp,
          hist, tasks, script>>

(***************************************************************************)
(* Ring buffer operations on the state.                                    *)
(***************************************************************************)
\* The longest sequence among the locked handles (0 when none is locked).
RECURSIVE MaxLockedLen(_, _, _)
MaxLockedLen(r, l, hs) ==
    IF hs = {} THEN 0
    ELSE LET h == CHOOSE x \in hs : TRUE
             m == MaxLockedLen(r, l, hs \ {h})
         IN IF l[h] THEN Max(Len(r[h]), m) ELSE m

\* uRingBufferAvailableSizeMax: the room a forced add has, which only the
\* locked read handles limit.
uRingBufferAvailableSizeMax(r, l) == RingBufferSize - MaxLockedLen(r, l, Handles)

\* uRingBufferForceAdd: all of data is added, handles that are not locked
\* losing their oldest bytes when the buffer overflows; nothing is added
\* (and false returned) when the locked handles leave no room for it.
uRingBufferForceAdd(r, l, data) ==
    IF Len(data) > uRingBufferAvailableSizeMax(r, l)
        THEN [ok |-> FALSE, ring |-> r]
    ELSE [ok |-> TRUE,
          ring |-> [h \in Handles |->
                       LET t == r[h] \o data
                       IN IF Len(t) > RingBufferSize
                              THEN Drop(t, Len(t) - RingBufferSize)
                          ELSE t]]

uRingBufferLockReadHandle(l, h) == [l EXCEPT ![h] = TRUE]
uRingBufferUnlockReadHandle(l, h) == [l EXCEPT ![h] = FALSE]
uRingBufferFlushHandle(r, h) == [r EXCEPT ![h] = <<>>]

(***************************************************************************)
(* uGnssPrivateGetStreamType: gGnssPrivateTransportTypeToStream[].         *)
(***************************************************************************)
U_GNSS_PRIVATE_STREAM_TYPE_NONE == 0
U_GNSS_PRIVATE_STREAM_TYPE_UART == 1
U_GNSS_PRIVATE_STREAM_TYPE_I2C == 2

uGnssPrivateGetStreamType(transportType) ==
    CASE transportType = "UART" -> U_GNSS_PRIVATE_STREAM_TYPE_UART
      [] transportType = "UBX_UART" -> U_GNSS_PRIVATE_STREAM_TYPE_UART
      [] transportType = "I2C" -> U_GNSS_PRIVATE_STREAM_TYPE_I2C
      [] transportType = "UBX_I2C" -> U_GNSS_PRIVATE_STREAM_TYPE_I2C
      [] transportType = "AT" -> U_GNSS_PRIVATE_STREAM_TYPE_NONE
      [] transportType = "NONE" -> U_GNSS_PRIVATE_STREAM_TYPE_NONE
      [] OTHER -> U_ERROR_COMMON_INVALID_PARAMETER

\* Whether the transport has a stream handle (lines 1361-1371).
HasStreamHandle(transportType) ==
    uGnssPrivateGetStreamType(transportType) \in
        {U_GNSS_PRIVATE_STREAM_TYPE_UART, U_GNSS_PRIVATE_STREAM_TYPE_I2C}

(***************************************************************************)
(* Calls and their arguments.                                              *)
(***************************************************************************)
AnyUbx == UbxId(65535)
WantedIds == {UbxId(263), AnyUbx, NmeaId(<<>>)}

\* What the read handle holds when the call starts.
InitialRings ==
    {<<>>, FramePvt, FrameMonVer \o FramePvt, Take(FramePvt, 7), FrameNackPvt}

NoArgs == [wanted |-> UnknownId, bufGiven |-> FALSE, size |-> 0, timeoutMs |-> 0,
           hasCb |-> FALSE, handle |-> "private", retPc |-> "done"]

\* uGnssPrivateReceiveStreamMessage(pInstance, &wanted, handle, ppBuffer, size,
\* timeoutMs, pKeepGoingCallback) called directly; size only counts when a
\* buffer is given.
RecvCalls ==
    { c \in [fn : {"recv"}, transport : {"UART", "I2C"}, dev : Devices,
             wanted : WantedIds, bufGiven : BOOLEAN,
             size : {0, SmallSize, RingBufferSize}, timeoutMs : {0, CallTimeoutMs},
             hasCb : BOOLEAN, respMode : {"none"}, cls : {-1}, id : {-1},
             ring0 : InitialRings] :
        c.bufGiven \/ (c.size = 0) }

\* sendReceiveUbxMessage(pInstance, 0x01, 0x07, NULL, 0, &response) as
\* uGnssPrivateSendReceiveUbxMessage calls it ("fixed" with a response buffer
\* of size bytes, "none" without one), as
\* uGnssPrivateSendReceiveUbxMessageAlloc calls it ("alloc") and as
\* uGnssPrivateSendUbxMessage calls it ("ack"); timeoutMs is
\* pInstance->timeoutMs.
SendCalls ==
    [fn : {"sendrecv"}, transport : {"UART", "I2C", "AT"}, dev : {"silent", "pvt", "nack", "mixed"},
     wanted : {UnknownId}, bufGiven : {FALSE}, size : {SmallSize},
     timeoutMs : {CallTimeoutMs}, hasCb : {FALSE},
     respMode : {"fixed", "alloc", "none"}, cls : {1}, id : {7},
     ring0 : {<<>>, FramePvt}]
    \cup
    [fn : {"sendrecv"}, transport : {"UART", "AT"}, dev : {"pvt"},
     wanted : {UnknownId}, bufGiven : {FALSE}, size : {0, TinySize},
     timeoutMs : {CallTimeoutMs}, hasCb : {FALSE},
     respMode : {"fixed"}, cls : {1}, id : {7},
     ring0 : {<<>>}]
    \cup
    [fn : {"sendrecv"}, transport : {"UART", "AT"},
     dev : {"silent", "ack", "nackpvt", "nack", "class5other", "acklong", "pvt"},
     wanted : {UnknownId}, bufGiven : {FALSE}, size : {2},
     timeoutMs : {CallTimeoutMs}, hasCb : {FALSE},
     respMode : {"ack"}, cls : {1}, id : {7},
     ring0 : {<<>>}]
    \cup
    [fn : {"sendrecv"}, transport : {"AT"},
     dev : {"ack", "nackpvt", "class5other", "acklong"},
     wanted : {UnknownId}, bufGiven : {FALSE}, size : {SmallSize},
     timeoutMs : {CallTimeoutMs}, hasCb : {FALSE},
     respMode : {"fixed", "alloc"}, cls : {1}, id : {7},
     ring0 : {<<>>}]

RxIdle == [startTimeMs |-> 0, errorCodeOrLength |-> 0, receiveSize |-> 0,
           discardSize |-> 0, id |-> UnknownId, buffer |-> <<>>, allocated |-> FALSE]
FillIdle == [timeoutMs |-> 0, maxTimeMs |-> 0, startTimeMs |-> 0,
             totalReceiveSize |-> 0, errorCodeOrLength |-> 0, retPc |-> "done"]

\* Observations of the call: the passes of the receive loop and the polls of
\* the transport (counted to 2), whether the task has slept, the last answer
\* of the callback, the last decode (its input, wanted id, result and what it
\* left on the handle), the frame last matched and what became of it.
Hist0 == [passes |-> 0, polls |-> 0, slept |-> FALSE, cbAsked |-> FALSE,
          cbStop |-> FALSE, everLocked |-> FALSE, sent |-> FALSE,
          decIn |-> <<>>, decId |-> UnknownId, decRc |-> 0, decRest |-> <<>>,
          found |-> FALSE, matched |-> <<>>, truncated |-> FALSE,
          passesSinceMatch |-> 0, atResponse |-> <<>>, srRet |-> 0,
          parser |-> "none", parsed |-> 0, bodyHeld |-> FALSE]

Cap2(n) == Min(n, 2)

Tasks == {"t1", "t2", "t3"}
TasksIdle == [t \in Tasks |-> [pc |-> "idle", fn |-> "none"]]

Init ==
    /\ now = 0
    /\ uartRx = <<>>
    /\ call \in RecvCalls \cup SendCalls
    /\ ring = [h \in Handles |-> call.ring0]
    /\ locked = [h \in Handles |-> FALSE]
    /\ mutex = "none"
    /\ pc = IF call.fn = "recv" THEN "rxStart" ELSE "srStart"
    /\ rxArgs = IF call.fn = "recv"
                   THEN [wanted |-> call.wanted, bufGiven |-> call.bufGiven,
                         size |-> call.size, timeoutMs |-> call.timeoutMs,
                         hasCb |-> call.hasCb, handle |-> "private", retPc |-> "done"]
                ELSE NoArgs
    /\ rx = RxIdle
    /\ fill = FillIdle
    /\ ret = 0
    /\ resp = <<>>
    /\ hist = Hist0
    /\ tasks = TasksIdle
    /\ script = DeviceScript(call.dev)

(***************************************************************************)
(* The environment: the device and the clock.                              *)
(***************************************************************************)
\* The device delivers a frame (or a junk byte) to the transport.
DeviceSend ==
    /\ pc \notin {"done", "idle"}
    /\ \E f \in (IF call.dev = "flood" THEN FloodFrames
                 ELSE IF script # <<>> THEN {Head(script)} ELSE {}) :
          /\ Len(uartRx) + Len(f) <= UartBufferSize
          /\ uartRx' = uartRx \o f
    /\ script' = IF script # <<>> THEN Tail(script) ELSE script
    /\ UNCHANGED <<now, ring, locked, mutex, pc, call, rxArgs, rx, fill, ret, resp,
                   hist, tasks>>

\* Time passes while the task runs a pass of the receive loop or is
\* preempted in it; the loop sees it when it reads the clock for its
\* condition.  Time after the deadline is not told apart.
Tick ==
    /\ pc = "rxCond"
    /\ now - rx.startTimeMs < rxArgs.timeoutMs
    /\ now' = now + BlockMs
    /\ UNCHANGED <<uartRx, ring, locked, mutex, pc, call, rxArgs, rx, fill, ret, resp,
                   hist, tasks, script>>

(***************************************************************************)
(* Faulty variants of definitions below: what a plausible slip in the      *)
(* code would give.  They are not part of the model; the properties are    *)
(* checked to fail with them.                                              *)
(***************************************************************************)
\* The read handle is left locked on return.
RxNoUnlock == locked

\* The private read handle is not flushed before the send.
SrNoFlush == ring

\* Every caller of the filler uses the instance's temporary buffer.
FillTemporaryBufferShared(task) == "instance"

\* The receive loop goes on waiting whatever the time.
RxKeepWaitingNoDeadline ==
    /\ \/ /\ rx.errorCodeOrLength < 0
          /\ rx.errorCodeOrLength # U_GNSS_ERROR_NACK
          /\ rx.errorCodeOrLength # U_ERROR_COMMON_NO_MEMORY
       \/ rx.discardSize > 0
    /\ rxArgs.timeoutMs > 0

\* The receive loop never goes round again.
RxStopAtOnce == FALSE

\* The mutex is taken without waiting for its holder to give it back.
MutexLockNoWait(m, t) == [ok |-> TRUE, mutex |-> t]

\* The fill at the start of a pass waits for data whatever the timeout.
RxFillAlwaysWaits ==
    [timeoutMs |-> MinFillTimeMs, maxTimeMs |-> 0, startTimeMs |-> now,
     totalReceiveSize |-> 0, errorCodeOrLength |-> U_ERROR_COMMON_TIMEOUT,
     retPc |-> "rxProcess"]

\* The frame is read out without its header and checksum.
StreamReadBodyOnly(s, size) ==
    [rc |-> size - U_UBX_PROTOCOL_OVERHEAD_LENGTH_BYTES,
     data |-> SubSeq(s, U_UBX_PROTOCOL_HEADER_LENGTH_BYTES + 1, size - 2),
     rest |-> Drop(s, Min(size, Len(s)))]

\* The keep-going callback's answer is ignored.
SendUbxNoBodyCheck(errorCode, response, body, messageClass, messageId) ==
    IF (errorCode = 2) /\ (response.cls = 5)
        THEN IF response.id = 1 THEN U_ERROR_COMMON_SUCCESS ELSE U_GNSS_ERROR_NACK
    ELSE U_ERROR_COMMON_UNKNOWN

ReceiveUbxNoLimit(errorCodeOrLength, pBuffer, privateMessageId, pResponse, mallocOk) ==
    IF errorCodeOrLength >= U_UBX_PROTOCOL_OVERHEAD_LENGTH_BYTES
        THEN [rc |-> errorCodeOrLength - U_UBX_PROTOCOL_OVERHEAD_LENGTH_BYTES,
              body |-> SubSeq(pBuffer, U_UBX_PROTOCOL_HEADER_LENGTH_BYTES + 1,
                              errorCodeOrLength - 2),
              cls |-> privateMessageId.ubx \div 256, id |-> privateMessageId.ubx % 256]
    ELSE [rc |-> errorCodeOrLength, body |-> <<>>, cls |-> pResponse.cls,
          id |-> pResponse.id]

RxLoopAgainNoCallback(keepGoing) ==
    /\ \/ /\ rx.errorCodeOrLength < 0
          /\ rx.errorCodeOrLength # U_GNSS_ERROR_NACK
          /\ rx.errorCodeOrLength # U_ERROR_COMMON_NO_MEMORY
       \/ rx.discardSize > 0
    /\ rxArgs.timeoutMs > 0
    /\ now - rx.startTimeMs < rxArgs.timeoutMs

(***************************************************************************)
(* uGnssPrivateStreamFillRingBuffer(pInstance, timeoutMs, maxTimeMs).      *)
(***************************************************************************)
\* Entry (lines 1340-1373) on a streaming transport: the locals before the
\* first pass of the do-loop.
FillEntry(timeoutMs, maxTimeMs, retPc) ==
    [timeoutMs |-> timeoutMs, maxTimeMs |-> maxTimeMs, startTimeMs |-> now,
     totalReceiveSize |-> 0, errorCodeOrLength |-> U_ERROR_COMMON_TIMEOUT,
     retPc |-> retPc]

\* The bytes one pass reads from the transport (lines 1377-1412): on UART
\* whatever has arrived, up to the temporary buffer's length; on I2C the
\* number asked for.
FillReadSize(streamType, available, ringBufferAvailableSize) ==
    LET receiveSize == Min(available, ringBufferAvailableSize)
    IN IF receiveSize <= 0 THEN receiveSize
       ELSE IF streamType = U_GNSS_PRIVATE_STREAM_TYPE_UART
           THEN Min(available, TemporaryBufferLength)
       ELSE Min(receiveSize, TemporaryBufferLength)

\* The condition of the do-while (lines 1436-1441) at time t.
FillAgain(f, errorCodeOrLength, totalReceiveSize, receiveSize, ringBufferAvailableSize, t) ==
    /\ (errorCodeOrLength = U_ERROR_COMMON_TIMEOUT) \/ (errorCodeOrLength >= 0)
    /\ f.timeoutMs > 0
    /\ ringBufferAvailableSize > 0
    /\ \/ (totalReceiveSize = 0) /\ (t - f.startTimeMs < f.timeoutMs)
       \/ (receiveSize > 0) /\ ((f.maxTimeMs = 0) \/ (t - f.startTimeMs < f.maxTimeMs))

\* One pass of the do-loop, and the return when the loop ends.
FillIter ==
    /\ pc = "fill"
    /\ LET streamType == uGnssPrivateGetStreamType(call.transport)
           avail == uRingBufferAvailableSizeMax(ring, locked)
           n == FillReadSize(streamType, Len(uartRx), avail)
           add == uRingBufferForceAdd(ring, locked, Take(uartRx, n))
           total == IF n > 0 THEN Min(fill.totalReceiveSize + n, TotalCap)
                    ELSE fill.totalReceiveSize
           err == IF n > 0
                     THEN (IF add.ok THEN total ELSE U_ERROR_COMMON_NO_MEMORY)
                  ELSE fill.errorCodeOrLength
           blocks == (n <= 0) /\ (avail > 0) /\ (fill.timeoutMs > 0)
           t == IF blocks THEN now + BlockMs ELSE now
           again == FillAgain(fill, err, total, n, avail, t)
           value == IF total > 0 THEN total ELSE err
       IN /\ now' = t
          /\ uartRx' = IF n > 0 THEN Drop(uartRx, n) ELSE uartRx
          /\ ring' = IF n > 0 THEN add.ring ELSE ring
          /\ hist' = [hist EXCEPT !.polls = Cap2(@ + 1), !.slept = @ \/ blocks]
          /\ IF again
                THEN /\ fill' = [fill EXCEPT !.totalReceiveSize = total,
                                             !.errorCodeOrLength = err]
                     /\ UNCHANGED <<pc, rx>>
             ELSE /\ fill' = FillIdle
                  /\ pc' = fill.retPc
                  /\ rx' = IF fill.retPc = "rxProcess"
                              THEN [rx EXCEPT !.receiveSize = value]
                           ELSE rx
          /\ ret' = IF ~again /\ (fill.retPc = "filled") THEN value ELSE ret
    /\ UNCHANGED <<locked, mutex, call, rxArgs, resp, tasks, script>>

(***************************************************************************)
(* uGnssPrivateReceiveStreamMessage.                                       *)
(***************************************************************************)
\* Line 1602: the read handle is locked while the function waits.
RxLock == uRingBufferLockReadHandle(locked, rxArgs.handle)

\* Line 1671: the read handle is unlocked before the return.
RxUnlock == uRingBufferUnlockReadHandle(locked, rxArgs.handle)

\* Line 1607: the fill that starts a pass of the loop.
RxFill == FillEntry(IF rxArgs.timeoutMs > 0 THEN MinFillTimeMs ELSE 0, 0, "rxProcess")

\* Lines 1589-1602: the check of the parameters, the start time, the lock.
RxStart ==
    /\ pc = "rxStart"
    /\ IF (~rxArgs.bufGiven) \/ (rxArgs.size > 0)
          THEN /\ rx' = [RxIdle EXCEPT !.startTimeMs = now,
                                       !.errorCodeOrLength = U_ERROR_COMMON_TIMEOUT,
                                       !.id = rxArgs.wanted]
               /\ locked' = RxLock
               /\ hist' = [hist EXCEPT !.everLocked = TRUE]
               /\ fill' = RxFill
               /\ pc' = "fill"
               /\ UNCHANGED ret
       ELSE /\ rx' = [RxIdle EXCEPT !.errorCodeOrLength = U_ERROR_COMMON_INVALID_PARAMETER,
                                    !.id = rxArgs.wanted]
            /\ pc' = rxArgs.retPc
            /\ ret' = U_ERROR_COMMON_INVALID_PARAMETER
            /\ UNCHANGED <<locked, hist, fill>>
    /\ UNCHANGED <<now, uartRx, ring, mutex, call, rxArgs, resp, tasks, script>>

\* uGnssPrivateStreamReadRingBuffer(pInstance, handle, pBuffer, size, maxTimeMs)
\* with maxTimeMs > 0 on the unread bytes s: streamGetFromRingBuffer takes what
\* is there; with nothing asked for its loop is not entered and it answers
\* timeout.
uGnssPrivateStreamReadRingBuffer(s, size) ==
    LET rd == uRingBufferReadHandle(s, size)
    IN [rc |-> IF Len(rd.data) > 0 THEN Len(rd.data) ELSE U_ERROR_COMMON_TIMEOUT,
        data |-> rd.data, rest |-> rd.rest]

\* Lines 1615-1617: what the read handle holds once the discard owed from
\* the pass before has been taken from it, and what is then still owed.
RxDiscard ==
    LET s == ring[rxArgs.handle]
        n == Min(rx.discardSize, Len(s))
    IN [rest |-> Drop(s, n), discardSize |-> rx.discardSize - n]

\* Lines 1609-1653 once the fill has returned, for a given outcome of malloc()
\* and with d the result of the decode at line 1620: the new locals, what is
\* left on the read handle, and what the pass did.
RxBody(mallocOk, d) ==
    LET have == rxArgs.bufGiven \/ rx.allocated
        limited == have /\ (d.rc > rxArgs.size)
        want == IF limited THEN rxArgs.size ELSE d.rc
        rd == uGnssPrivateStreamReadRingBuffer(d.rest, want)
        none == [decoded |-> FALSE, matched |-> <<>>, limited |-> FALSE]
        dec == [decoded |-> TRUE, matched |-> <<>>, limited |-> FALSE]
    IN IF Len(ring[rxArgs.handle]) = 0
           THEN [rx |-> rx, rest |-> ring[rxArgs.handle], obs |-> none]
       ELSE IF RxDiscard.discardSize # 0
           THEN [rx |-> [rx EXCEPT !.discardSize = RxDiscard.discardSize],
                 rest |-> RxDiscard.rest, obs |-> none]
       ELSE IF d.rc <= 0
           THEN [rx |-> [rx EXCEPT !.discardSize = 0, !.errorCodeOrLength = d.rc,
                                   !.id = d.id],
                 rest |-> d.rest, obs |-> dec]
       ELSE IF have \/ mallocOk
           THEN [rx |-> [rx EXCEPT !.discardSize = IF limited THEN d.rc - rxArgs.size
                                                   ELSE 0,
                                   !.errorCodeOrLength = rd.rc,
                                   !.id = d.id,
                                   !.buffer = rd.data \o Drop(@, Len(rd.data)),
                                   !.allocated = @ \/ ~rxArgs.bufGiven],
                 rest |-> rd.rest,
                 obs |-> [decoded |-> TRUE, matched |-> Take(d.rest, d.rc),
                          limited |-> limited]]
       ELSE [rx |-> [rx EXCEPT !.discardSize = d.rc,
                               !.errorCodeOrLength = U_ERROR_COMMON_NO_MEMORY,
                               !.id = d.id],
             rest |-> d.rest, obs |-> dec]

\* What a pass adds to the observations.
RxObserve(h, d, obs, sleeps) ==
    [h EXCEPT
       !.passes = Cap2(@ + 1),
       !.slept = @ \/ sleeps,
       !.decIn = IF obs.decoded THEN RxDiscard.rest ELSE @,
       !.decId = IF obs.decoded THEN rx.id ELSE @,
       !.decRc = IF obs.decoded THEN d.rc ELSE @,
       !.decRest = IF obs.decoded THEN d.rest ELSE @,
       !.found = @ \/ (obs.decoded /\ d.rc > 0),
       !.matched = IF obs.matched # <<>> THEN obs.matched ELSE @,
       !.truncated = IF obs.matched # <<>> THEN obs.limited ELSE @,
       !.passesSinceMatch = IF obs.matched # <<>> THEN 0
                            ELSE IF h.matched # <<>> THEN Cap2(@ + 1) ELSE @]

\* One pass of the loop after its fill (lines 1609-1658), the sleep included.
RxProcess ==
    /\ pc = "rxProcess"
    /\ \E mallocOk \in BOOLEAN :
       \E d \in {uGnssPrivateStreamDecodeRingBuffer(RxDiscard.rest, rx.id)} :
       \E b \in {RxBody(mallocOk, d)} :
          LET sleeps == (rx.receiveSize <= 0) /\ (rxArgs.timeoutMs > 0)
          IN /\ (rxArgs.bufGiven \/ rx.allocated \/ ~b.obs.decoded \/ d.rc <= 0)
                   => mallocOk
             /\ rx' = b.rx
             /\ ring' = [ring EXCEPT ![rxArgs.handle] = b.rest]
             /\ now' = IF sleeps THEN now + BlockMs ELSE now
             /\ hist' = RxObserve(hist, d, b.obs, sleeps)
    /\ pc' = "rxCond"
    /\ UNCHANGED <<uartRx, locked, mutex, call, rxArgs, fill, ret, resp, tasks, script>>

\* The part of the while condition (lines 1664-1667) ahead of the callback.
RxKeepWaiting ==
    /\ \/ /\ rx.errorCodeOrLength < 0
          /\ rx.errorCodeOrLength # U_GNSS_ERROR_NACK
          /\ rx.errorCodeOrLength # U_ERROR_COMMON_NO_MEMORY
       \/ rx.discardSize > 0
    /\ rxArgs.timeoutMs > 0
    /\ now - rx.startTimeMs < rxArgs.timeoutMs

\* The while condition with the answer of pKeepGoingCallback, which is only
\* called when the conditions ahead of it hold (line 1668).
RxLoopAgain(keepGoing) ==
    RxKeepWaiting /\ ((~rxArgs.hasCb) \/ keepGoing)

\* Lines 1664-1674: the while condition, then either the next pass or the
\* unlock and the return.
RxCond ==
    /\ pc = "rxCond"
    /\ \E keepGoing \in BOOLEAN :
          LET asked == RxKeepWaiting /\ rxArgs.hasCb
          IN /\ (~asked) => keepGoing
             /\ hist' = [hist EXCEPT !.cbAsked = asked,
                                     !.cbStop = asked /\ ~keepGoing]
             /\ IF RxLoopAgain(keepGoing)
                   THEN /\ fill' = RxFill
                        /\ pc' = "fill"
                        /\ UNCHANGED <<locked, ret>>
                ELSE /\ locked' = RxUnlock
                     /\ pc' = rxArgs.retPc
                     /\ ret' = rx.errorCodeOrLength
                     /\ UNCHANGED fill
    /\ UNCHANGED <<now, uartRx, ring, mutex, call, rxArgs, rx, resp, tasks, script>>

(***************************************************************************)
(* The transport mutex (u_port_os.c).                                      *)
(***************************************************************************)
\* uPortMutexLock: xSemaphoreTake() with portMAX_DELAY returns once the
\* mutex is free, the caller then holding it.
uPortMutexLock(m, t) == [ok |-> m = "none", mutex |-> t]

\* uPortMutexUnlock: xSemaphoreGive().
uPortMutexUnlock(m) == "none"

(***************************************************************************)
(* sendReceiveUbxMessage, for the application task ("app").                *)
(***************************************************************************)
\* Lines 525-526: a response is waited for on a streaming transport.
SrWaits ==
    (call.respMode # "none") /\ (uGnssPrivateGetStreamType(call.transport) >= 0)

\* receiveUbxMessageStream, lines 303-310: the wanted id from the class and
\* id of the response, negative values standing for "any".
ResponseToPrivateId(cls, id) ==
    LET all == (U_GNSS_UBX_MESSAGE_CLASS_ALL * 256) + U_GNSS_UBX_MESSAGE_ID_ALL
        a == IF cls >= 0 THEN BitOr(BitAnd(all, 255), cls * 256) ELSE all
        b == IF id >= 0 THEN BitOr(BitAnd(a, 65280), id) ELSE a
    IN UbxId(b)

\* The response structure each caller hands to sendReceiveUbxMessage (lines
\* 1694-1701, 1720-1723 and 1745-1748): the class and id expected, whether
\* ppBody is given, whether *ppBody is a buffer of the caller, and bodySize.
Response(c) ==
    CASE c.respMode = "fixed" ->
             [cls |-> c.cls, id |-> c.id, ppBody |-> TRUE, pBody |-> TRUE,
              bodySize |-> c.size]
      [] c.respMode = "alloc" ->
             [cls |-> c.cls, id |-> c.id, ppBody |-> TRUE, pBody |-> FALSE,
              bodySize |-> 0]
      [] c.respMode = "ack" ->
             [cls |-> 5, id |-> -1, ppBody |-> TRUE, pBody |-> TRUE, bodySize |-> 2]
      [] OTHER ->
             [cls |-> c.cls, id |-> c.id, ppBody |-> FALSE, pBody |-> FALSE,
              bodySize |-> 0]

\* What a receive leaves for the caller of sendReceiveUbxMessage: the return
\* value, the bytes written to the response body, and the response's class
\* and id.
ResponseResult(rc, body, cls, id) == [rc |-> rc, body |-> body, cls |-> cls, id |-> id]

\* receiveUbxMessageStream, lines 318-355, applied to what
\* uGnssPrivateReceiveStreamMessage returned (errorCodeOrLength), the frame in
\* pBuffer and the id it matched.
receiveUbxMessageStream(errorCodeOrLength, pBuffer, privateMessageId, pResponse, mallocOk) ==
    IF errorCodeOrLength >= U_UBX_PROTOCOL_OVERHEAD_LENGTH_BYTES
        THEN LET bodyLength == errorCodeOrLength - U_UBX_PROTOCOL_OVERHEAD_LENGTH_BYTES
                 n == IF pResponse.pBody /\ (bodyLength > pResponse.bodySize)
                         THEN pResponse.bodySize ELSE bodyLength
                 cls == privateMessageId.ubx \div 256
                 id == privateMessageId.ubx % 256
             IN IF pResponse.pBody \/ mallocOk
                    THEN ResponseResult(n,
                                        SubSeq(pBuffer,
                                               U_UBX_PROTOCOL_HEADER_LENGTH_BYTES + 1,
                                               U_UBX_PROTOCOL_HEADER_LENGTH_BYTES + n),
                                        cls, id)
                ELSE ResponseResult(U_ERROR_COMMON_NO_MEMORY, <<>>, cls, id)
    ELSE ResponseResult(errorCodeOrLength, <<>>, pResponse.cls, pResponse.id)

\* uUbxProtocolDecode (u_ubx_protocol.c) on a buffer that holds one message:
\* the length of the body, its class and id, and the bytes of the body it
\* stores, at most maxBodyLengthBytes of them; not-found when the buffer
\* holds no UBX message.
uUbxProtocolDecode(pBufferIn, maxBodyLengthBytes) ==
    LET p == uGnssPrivateParseUbx(pBufferIn)
    IN IF p.rc = U_ERROR_COMMON_SUCCESS
           THEN LET body == SubSeq(pBufferIn, U_UBX_PROTOCOL_HEADER_LENGTH_BYTES + 1,
                                   p.parsed - 2)
                IN [rc |-> Len(body), cls |-> pBufferIn[3], id |-> pBufferIn[4],
                    body |-> Take(body, maxBodyLengthBytes)]
       ELSE [rc |-> U_ERROR_COMMON_NOT_FOUND, cls |-> -1, id |-> -1, body |-> <<>>]

\* sendReceiveUbxMessageAt (lines 366-490): binary is what the module
\* answered, decoded from hex (empty when it answered nothing); atOk is
\* whether the AT exchange ended without error.
sendReceiveUbxMessageAt(binary, pResponse, mallocOk, atOk) ==
    IF ~mallocOk
        THEN ResponseResult(U_ERROR_COMMON_NO_MEMORY, <<>>, pResponse.cls, pResponse.id)
    ELSE IF (~atOk) \/ (~pResponse.ppBody) \/ (Len(binary) = 0)
        THEN ResponseResult(U_GNSS_ERROR_TRANSPORT, <<>>, pResponse.cls, pResponse.id)
    ELSE LET x == Len(binary)
             captureSize == IF pResponse.pBody THEN Min(x, pResponse.bodySize) ELSE x
             ack == uUbxProtocolDecode(binary, 2)
             dec == uUbxProtocolDecode(binary, captureSize)
         IN IF captureSize = 0
                THEN ResponseResult(0, <<>>, pResponse.cls, pResponse.id)
            ELSE IF /\ ack.rc = 2
                    /\ ack.body[1] = pResponse.cls
                    /\ ack.body[2] = pResponse.id
                THEN ResponseResult(U_GNSS_ERROR_NACK, <<>>, pResponse.cls, pResponse.id)
            ELSE IF dec.rc < 0
                THEN ResponseResult(dec.rc, <<>>, pResponse.cls, pResponse.id)
            ELSE ResponseResult(Min(dec.rc, captureSize), dec.body, dec.cls, dec.id)

\* sendReceiveUbxMessageAt, lines 431-439 and 484-486: whether *ppBody is
\* left pointing at the buffer the function allocated, which it then does
\* not free.
AtBufferReuse(binary, pResponse, mallocOk, atOk) ==
    mallocOk /\ atOk /\ pResponse.ppBody /\ (Len(binary) > 0) /\ ~pResponse.pBody

\* receiveUbxMessageStream, lines 325-327: whether *ppBody is left pointing
\* at a buffer the function allocated.
StreamBodyAllocated(errorCodeOrLength, pResponse, mallocOk) ==
    (errorCodeOrLength >= U_UBX_PROTOCOL_OVERHEAD_LENGTH_BYTES) /\ pResponse.ppBody
        /\ (~pResponse.pBody) /\ mallocOk

\* uGnssPrivateSendUbxMessage, lines 1753-1762: the error code made of what
\* sendReceiveUbxMessage returned, the class and id of the response and the
\* two bytes of ackBody (zero where the response wrote nothing).
SendUbxErrorCode(errorCode, response, body, messageClass, messageId) ==
    LET ackBody == [i \in 1..2 |-> IF i <= Len(body) THEN body[i] ELSE 0]
    IN IF /\ errorCode = 2
          /\ response.cls = 5
          /\ ackBody[1] = messageClass % 256
          /\ ackBody[2] = messageId % 256
           THEN IF response.id = 1 THEN U_ERROR_COMMON_SUCCESS ELSE U_GNSS_ERROR_NACK
       ELSE U_ERROR_COMMON_UNKNOWN

\* What the public function returns to its caller: for
\* uGnssPrivateSendUbxMessage the error code above, for the other two what
\* sendReceiveUbxMessage returned (lines 1703 and 1725).
CallerResult(r) ==
    IF call.respMode = "ack"
        THEN SendUbxErrorCode(r.rc, r, r.body, call.cls, call.id)
    ELSE r.rc

\* sendReceiveUbxMessage returning rc with the response structure as the
\* caller filled it in.
NoResponse(rc) == ResponseResult(rc, <<>>, Response(call).cls, Response(call).id)

\* Lines 509-535: the buffer for the command, the mutex, the fill ahead of
\* the send.
SrStart ==
    /\ pc = "srStart"
    /\ \E mallocOk \in BOOLEAN :
          IF ~mallocOk
              THEN /\ ret' = CallerResult(NoResponse(U_ERROR_COMMON_NO_MEMORY))
                   /\ hist' = [hist EXCEPT !.srRet = U_ERROR_COMMON_NO_MEMORY]
                   /\ pc' = "done"
                   /\ UNCHANGED <<mutex, fill>>
          ELSE /\ uPortMutexLock(mutex, "app").ok
               /\ mutex' = uPortMutexLock(mutex, "app").mutex
               /\ UNCHANGED <<ret, hist>>
               /\ IF SrWaits /\ HasStreamHandle(call.transport)
                     THEN /\ fill' = FillEntry(MinFillTimeMs, MaxFillTimeMs, "srSend")
                          /\ pc' = "fill"
                  ELSE /\ pc' = "srSend"
                       /\ UNCHANGED fill
    /\ UNCHANGED <<now, uartRx, ring, locked, call, rxArgs, rx, resp, tasks, script>>

\* Lines 583-585: the read handle and the mutex are given back.
SrUnlock == uRingBufferUnlockReadHandle(locked, "private")

\* Lines 538-539: what was on the private read handle is dropped when a
\* response is awaited.
SrFlush == IF SrWaits THEN uRingBufferFlushHandle(ring, "private") ELSE ring

\* Lines 536-580: the lock and flush of the read handle, the send, and the
\* start of the wait for the response; on AT the whole exchange.
SrSend ==
    /\ pc = "srSend"
    /\ ring' = SrFlush
    /\ \/ /\ call.transport = "AT"
          /\ \E mallocOk \in BOOLEAN, atOk \in BOOLEAN :
             \E binary \in {IF script # <<>> THEN Head(script) ELSE <<>>} :
             \E r \in {sendReceiveUbxMessageAt(binary, Response(call), mallocOk, atOk)} :
                /\ ret' = CallerResult(r)
                /\ resp' = r.body
                /\ hist' = [hist EXCEPT !.sent = TRUE, !.everLocked = @ \/ SrWaits,
                                        !.atResponse = binary, !.srRet = r.rc,
                                        !.bodyHeld = AtBufferReuse(binary, Response(call),
                                                                   mallocOk, atOk)]
          /\ locked' = SrUnlock
          /\ mutex' = uPortMutexUnlock(mutex)
          /\ pc' = "done"
          /\ UNCHANGED rxArgs
       \/ /\ call.transport # "AT"
          /\ \E sendOk \in BOOLEAN :
                IF sendOk /\ (call.respMode # "none")
                    THEN /\ hist' = [hist EXCEPT !.sent = TRUE,
                                                 !.everLocked = @ \/ SrWaits]
                         /\ rxArgs' = [wanted |-> ResponseToPrivateId(Response(call).cls,
                                                                 Response(call).id),
                                       bufGiven |-> FALSE, size |-> 0,
                                       timeoutMs |-> call.timeoutMs, hasCb |-> FALSE,
                                       handle |-> "private", retPc |-> "srFinish"]
                         /\ locked' = IF SrWaits
                                         THEN uRingBufferLockReadHandle(locked, "private")
                                      ELSE locked
                         /\ pc' = "rxStart"
                         /\ UNCHANGED <<ret, mutex>>
                ELSE /\ ret' = CallerResult(NoResponse(IF sendOk THEN 0
                                                        ELSE U_ERROR_COMMON_PLATFORM))
                     /\ hist' = [hist EXCEPT !.sent = TRUE,
                                             !.everLocked = @ \/ SrWaits,
                                             !.srRet = IF sendOk THEN 0
                                                       ELSE U_ERROR_COMMON_PLATFORM]
                     /\ locked' = SrUnlock
                     /\ mutex' = uPortMutexUnlock(mutex)
                     /\ pc' = "done"
                     /\ UNCHANGED rxArgs
          /\ UNCHANGED resp
    /\ UNCHANGED <<now, uartRx, call, rx, fill, tasks, script>>

\* receiveUbxMessageStream, lines 318-353, once the frame has been received,
\* then lines 583-585: the body is copied out of the frame and the read
\* handle and the mutex are given back.
SrFinish ==
    /\ pc = "srFinish"
    /\ \E mallocOk \in BOOLEAN :
          /\ ((call.respMode # "alloc") \/ (ret < U_UBX_PROTOCOL_OVERHEAD_LENGTH_BYTES))
                 => mallocOk
          /\ \E r \in {receiveUbxMessageStream(ret, rx.buffer, rx.id, Response(call),
                                                mallocOk)} :
                /\ ret' = CallerResult(r)
                /\ resp' = r.body
                /\ hist' = [hist EXCEPT !.srRet = r.rc,
                                        !.bodyHeld = StreamBodyAllocated(ret, Response(call),
                                                                         mallocOk)]
    /\ locked' = SrUnlock
    /\ mutex' = uPortMutexUnlock(mutex)
    /\ pc' = "done"
    /\ UNCHANGED <<now, uartRx, ring, call, rxArgs, rx, fill, tasks, script>>

Receive == RxStart \/ FillIter \/ RxProcess \/ RxCond
SendReceive == SrStart \/ SrSend \/ SrFinish

Next == DeviceSend \/ Tick \/ Receive \/ SendReceive

Spec == Init /\ [][Next]_vars

\* Calls of uGnssPrivateReceiveStreamMessage that may have to wait: a
\* positive timeout, and a device that is silent or sends without end.
InitWait ==
    /\ Init
    /\ call.fn = "recv"
    /\ call.timeoutMs > 0
    /\ call.dev \in {"silent", "flood"}

NextWait == DeviceSend \/ Tick \/ Receive

\* The task is scheduled as long as it can run, and the clock is not
\* stopped by the task running.  RxProcess can always be taken where the
\* task is at "rxProcess" and always leaves that position, so weak fairness
\* of it is that the task is not at "rxProcess" for ever.
FairSpec ==
    /\ InitWait
    /\ [][NextWait]_vars
    /\ WF_vars(RxStart \/ FillIter \/ RxCond)
    /\ []<>(pc # "rxProcess")
    /\ SF_vars(Tick)

(***************************************************************************)
(* Several tasks using one instance: each calls sendReceiveUbxMessage      *)
(* ("sendReceive") or uGnssPrivateSendOnlyStreamUbxMessage ("sendOnly")    *)
(* again and again.  What a call receives is left out here; where it takes *)
(* and gives the transport mutex and where it writes is kept.              *)
(***************************************************************************)
MutexInstance(transport) ==
    [fn |-> "tasks", transport |-> transport, dev |-> "silent", wanted |-> UnknownId,
     bufGiven |-> FALSE, size |-> 0, timeoutMs |-> 0, hasCb |-> FALSE,
     respMode |-> "none", cls |-> -1, id |-> -1, ring0 |-> <<>>]

InitMutex ==
    /\ now = 0
    /\ uartRx = <<>>
    /\ call \in {MutexInstance(tr) : tr \in {"UART", "I2C", "AT"}}
    /\ ring = [h \in Handles |-> <<>>]
    /\ locked = [h \in Handles |-> FALSE]
    /\ mutex = "none"
    /\ pc = "idle"
    /\ rxArgs = NoArgs
    /\ rx = RxIdle
    /\ fill = FillIdle
    /\ ret = 0
    /\ resp = <<>>
    /\ hist = Hist0
    /\ tasks = TasksIdle
    /\ script = <<>>

\* The tasks leave the rest of the state as it is.
RestUnchanged ==
    UNCHANGED <<now, uartRx, ring, pc, call, rxArgs, rx, fill, ret, resp, hist, script>>

TaskAt(t, where, fn) == [tasks EXCEPT ![t] = [pc |-> where, fn |-> fn]]

\* A task calls one of the two functions and gets as far as the mutex
\* (lines 509-521, lines 1486-1498).
TaskCall(t) ==
    /\ tasks[t].pc = "idle"
    /\ \E fn \in {"sendReceive", "sendOnly"} : tasks' = TaskAt(t, "lock", fn)
    /\ UNCHANGED <<mutex, locked>>
    /\ RestUnchanged

\* U_PORT_MUTEX_LOCK(pInstance->transportMutex), lines 523 and 1500.
TaskLock(t) ==
    /\ tasks[t].pc = "lock"
    /\ uPortMutexLock(mutex, t).ok
    /\ mutex' = uPortMutexLock(mutex, t).mutex
    /\ tasks' = TaskAt(t, IF tasks[t].fn = "sendReceive" THEN "prepare" ELSE "send",
                       tasks[t].fn)
    /\ UNCHANGED locked
    /\ RestUnchanged

\* Lines 525-540: the fill, lock and flush of the read handle ahead of the
\* send.
TaskPrepare(t) ==
    /\ tasks[t].pc = "prepare"
    /\ locked' = IF uGnssPrivateGetStreamType(call.transport) >= 0
                    THEN uRingBufferLockReadHandle(locked, "private")
                 ELSE locked
    /\ tasks' = TaskAt(t, "send", tasks[t].fn)
    /\ UNCHANGED mutex
    /\ RestUnchanged

\* sendMessageStream or the AT command begins to write the command bytes
\* (lines 545, 559, 572 and 1513).
TaskSendBegin(t) ==
    /\ tasks[t].pc = "send"
    /\ tasks' = TaskAt(t, "writing", tasks[t].fn)
    /\ UNCHANGED <<mutex, locked>>
    /\ RestUnchanged

\* The write has ended; sendReceiveUbxMessage goes on to wait for the
\* response.
TaskSendEnd(t) ==
    /\ tasks[t].pc = "writing"
    /\ tasks' = TaskAt(t, IF tasks[t].fn = "sendReceive" THEN "receive" ELSE "unlock",
                       tasks[t].fn)
    /\ UNCHANGED <<mutex, locked>>
    /\ RestUnchanged

\* The wait for the response ends, with a response or without (lines 551,
\* 565, 572).
TaskReceiveEnd(t) ==
    /\ tasks[t].pc = "receive"
    /\ tasks' = TaskAt(t, "unlock", tasks[t].fn)
    /\ UNCHANGED <<mutex, locked>>
    /\ RestUnchanged

\* Lines 583-585 and line 1519.
TaskUnlock(t) ==
    /\ tasks[t].pc = "unlock"
    /\ locked' = IF tasks[t].fn = "sendReceive"
                    THEN uRingBufferUnlockReadHandle(locked, "private")
                 ELSE locked
    /\ mutex' = uPortMutexUnlock(mutex)
    /\ tasks' = TaskAt(t, "idle", "none")
    /\ RestUnchanged

NextMutex ==
    \E t \in Tasks :
       \/ TaskCall(t)
       \/ TaskLock(t)
       \/ TaskPrepare(t)
       \/ TaskSendBegin(t)
       \/ TaskSendEnd(t)
       \/ TaskReceiveEnd(t)
       \/ TaskUnlock(t)

SpecMutex == InitMutex /\ [][NextMutex]_vars

(***************************************************************************)
(* The three parsers on their own: one input lies in the ring buffer at    *)
(* the parse handle and one parser is run on it, as uRingBufferParseHandle *)
(* runs the U_RING_BUFFER_PARSER_f functions.  An input is a frame, a      *)
(* frame with one byte changed, or either of these cut short.              *)
(***************************************************************************)
MaxBodyLen == 2                 \* longest enumerated UBX body
LongTokenLen == 9               \* an NMEA token longer than the match length

ByteValues == {0, 1, 255}
FlipDeltas == {1, 32, 255}
NonPrintable == {0, 31, 127, 200}

BodiesUpTo(n) == UNION {[1..k -> ByteValues] : k \in 0..n}

\* A frame with what it was made from.
Made(src, bytes) == [src |-> src, bytes |-> bytes]

UbxFrames ==
    {Made([cls |-> c, id |-> i, body |-> b], UbxFrame(c, i, b)) :
        c \in ByteValues, i \in {0, 7, 255},
        b \in BodiesUpTo(MaxBodyLen) \cup {<<222, 173, 190, 239>>}}

\* "0123456789ABCDEF"
HexChars == <<48, 49, 50, 51, 52, 53, 54, 55, 56, 57, 65, 66, 67, 68, 69, 70>>

RECURSIVE XorOver(_)
XorOver(s) == IF s = <<>> THEN 0 ELSE BitXor(s[1], XorOver(Tail(s)))

\* $<token>,<data>*hh\r\n with hh the XOR of what lies between '$' and '*'.
NmeaSentence(tok, data) ==
    LET crc == XorOver(tok \o <<44>> \o data)
    IN <<36>> \o tok \o <<44>> \o data
         \o <<42, HexChars[(crc \div 16) + 1], HexChars[(crc % 16) + 1], 13, 10>>

\* "GNGGA12345"
TokenChars == <<71, 78, 71, 71, 65, 49, 50, 51, 52, 53>>
NmeaTokens == {Take(TokenChars, n) : n \in {0, 1, 5, U_GNSS_NMEA_MESSAGE_MATCH_LENGTH_CHARACTERS, LongTokenLen}}
NmeaDatas == {<<>>, <<49>>, <<65, 44, 66>>}
NmeaSentences == {Made([tok |-> t, data |-> d], NmeaSentence(t, d)) : t \in NmeaTokens, d \in NmeaDatas}

\* The three bytes that bring the CRC register to zero after the bytes m.
RtcmCrcBytes(m) ==
    LET c == RtcmCrcOver(m \o <<0, 0, 0>>, 0)
    IN <<c \div 65536, (c \div 256) % 256, c % 256>>

\* The frame uGnssPrivateParseRtcm() takes: preamble, length n, n + 1 bytes
\* and three bytes of CRC taken over what follows the length.
RtcmAsParsed(m) == <<211, 0, Len(m) - 1>> \o m \o RtcmCrcBytes(m)

\* The frame of RTCM 10403: preamble, length n, n bytes and three bytes of
\* CRC taken over all that precedes them.
RtcmStandard(m) ==
    LET h == <<211, 0, Len(m)>> \o m
    IN h \o RtcmCrcBytes(h)

RtcmPayloads == {<<62, 208>>, <<67, 80, 1>>, <<255, 255>>, <<0, 1>>}
RtcmFramesAsParsed == {Made([payload |-> m], RtcmAsParsed(m)) : m \in RtcmPayloads}
RtcmFramesStandard == {Made([payload |-> m], RtcmStandard(m)) : m \in RtcmPayloads}

FramesOf(proto) ==
    CASE proto = "UBX" -> UbxFrames
      [] proto = "NMEA" -> NmeaSentences
      [] proto = "RTCM" -> RtcmFramesAsParsed
      [] proto = "RTCM10403" -> RtcmFramesStandard

\* The values byte pos of frame f is changed to.
FlipValues(proto, f, pos) ==
    ({(f[pos] + d) % 256 : d \in FlipDeltas} \cup (IF proto = "NMEA" THEN NonPrintable ELSE {})) \ {f[pos]}

\* Frame f whole (flipPos 0, cut Len(f)), cut to a prefix, or with byte
\* flipPos changed and then whole or cut just behind that byte.
ParseInput(proto, f, p, v, k) == [fn |-> "parse", proto |-> proto, src |-> f.src, frame |-> f.bytes, flipPos |-> p, flipVal |-> v, cut |-> k]

ParseInputsOf(proto) ==
    UNION {{ParseInput(proto, f, 0, 0, k) : k \in 0..Len(f.bytes)}
           \cup UNION {{ParseInput(proto, f, p, v, k) : v \in FlipValues(proto, f.bytes, p), k \in {p, Len(f.bytes)}}
                       : p \in 1..Len(f.bytes)}
           : f \in FramesOf(proto)}

ParseInputs(protos) == UNION {ParseInputsOf(proto) : proto \in protos}

InputBytes(c) ==
    LET f == IF c.flipPos = 0 THEN c.frame ELSE [c.frame EXCEPT ![c.flipPos] = c.flipVal]
    IN Take(f, c.cut)

InitParse ==
    /\ now = 0
    /\ uartRx = <<>>
    /\ call \in ParseInputs({"UBX", "NMEA", "RTCM", "RTCM10403"})
    /\ ring = [h \in Handles |-> InputBytes(call)]
    /\ locked = [h \in Handles |-> FALSE]
    /\ mutex = "none"
    /\ pc = "parse"
    /\ rxArgs = NoArgs
    /\ rx = RxIdle
    /\ fill = FillIdle
    /\ ret = 0
    /\ resp = <<>>
    /\ hist = Hist0
    /\ tasks = TasksIdle
    /\ script = <<>>

\* One run of a parser at the parse handle: its return value, the bytes it
\* has taken from the handle and the id it has written.
Parsed(parser, r) ==
    /\ pc = "parse"
    /\ pc' = "parsed"
    /\ ret' = r.rc
    /\ rx' = [rx EXCEPT !.id = r.id]
    /\ hist' = [hist EXCEPT !.parser = parser, !.parsed = r.parsed]
    /\ UNCHANGED <<now, uartRx, ring, locked, mutex, call, rxArgs, fill, resp, tasks, script>>

RunParseUbx == \E r \in {uGnssPrivateParseUbx(ring["private"])} : Parsed("UBX", r)

RunParseNmea == \E r \in {uGnssPrivateParseNmea(ring["private"])} : Parsed("NMEA", r)

RunParseRtcm == \E r \in {uGnssPrivateParseRtcm(ring["private"])} : Parsed("RTCM", r)

NextParse ==
    \/ RunParseUbx
    \/ RunParseNmea
    \/ RunParseRtcm

SpecParse == InitParse /\ [][NextParse]_vars

(***************************************************************************)
(* The message-id matching on its own: a decoded id and a wanted id are    *)
(* given to uGnssPrivateMessageIdIsWanted.                                 *)
(***************************************************************************)
MaxNmeaIdLen == 3               \* longest NMEA id enumerated

IdBytes == {0, 1, 7, 255}
UbxIds == {UbxId(c * 256 + i) : c \in IdBytes, i \in IdBytes}
StringsUpTo(chars, n) == UNION {[1..k -> chars] : k \in 0..n}
\* 'G', 'P' and, in a wanted id, '?'
NmeaIdsActual == {NmeaId(t) : t \in StringsUpTo({71, 80}, MaxNmeaIdLen)}
NmeaIdsWanted == {NmeaId(t) : t \in StringsUpTo({71, 80, 63}, MaxNmeaIdLen)}
RtcmIds == {RtcmId(r) : r \in {0, 1005, 1077}}

\* What the decoder can hand over, and what a caller can ask for.
MatchActualIds == UbxIds \cup NmeaIdsActual \cup RtcmIds \cup {UnknownId}
MatchWantedIds == UbxIds \cup NmeaIdsWanted \cup RtcmIds \cup {UnknownId, MsgId("ANY", 0, <<>>, 0), MsgId("ALL", 0, <<>>, 0)}

InitMatch ==
    /\ now = 0
    /\ uartRx = <<>>
    /\ call \in {[fn |-> "match", actual |-> a, wanted |-> w] : a \in MatchActualIds, w \in MatchWantedIds}
    /\ ring = [h \in Handles |-> <<>>]
    /\ locked = [h \in Handles |-> FALSE]
    /\ mutex = "none"
    /\ pc = "match"
    /\ rxArgs = NoArgs
    /\ rx = RxIdle
    /\ fill = FillIdle
    /\ ret = 0
    /\ resp = <<>>
    /\ hist = Hist0
    /\ tasks = TasksIdle
    /\ script = <<>>

\* The bool returned, as the int of C.
RunIsWanted ==
    /\ pc = "match"
    /\ pc' = "matched"
    /\ ret' = IF uGnssPrivateMessageIdIsWanted(call.actual, call.wanted) THEN 1 ELSE 0
    /\ UNCHANGED <<now, uartRx, ring, locked, mutex, call, rxArgs, rx, fill, resp, hist, tasks, script>>

NextMatch == RunIsWanted

SpecMatch == InitMatch /\ [][NextMatch]_vars

(***************************************************************************)
(* uGnssPrivateStreamFillRingBuffer called on its own: a transport, the    *)
(* two times, a device, and whether another reader holds a handle of the   *)
(* ring buffer locked.                                                     *)
(***************************************************************************)
FillCalls ==
    [fn : {"fill"}, transport : {"UART", "I2C"}, dev : {"silent", "flood", "pvt", "mixed"},
     timeoutMs : {0, MinFillTimeMs, CallTimeoutMs}, maxTimeMs : {0, MaxFillTimeMs},
     lockMsg : BOOLEAN, ring0 : {<<>>, FramePvt}]

InitFill ==
    /\ now = 0
    /\ uartRx = <<>>
    /\ call \in FillCalls
    /\ ring = [h \in Handles |-> call.ring0]
    /\ locked = [h \in Handles |-> (h = "msg") /\ call.lockMsg]
    /\ mutex = "none"
    /\ pc = "fill"
    /\ rxArgs = NoArgs
    /\ rx = RxIdle
    /\ fill = [timeoutMs |-> call.timeoutMs, maxTimeMs |-> call.maxTimeMs,
               startTimeMs |-> 0, totalReceiveSize |-> 0,
               errorCodeOrLength |-> U_ERROR_COMMON_TIMEOUT, retPc |-> "filled"]
    /\ ret = 0
    /\ resp = <<>>
    /\ hist = Hist0
    /\ tasks = TasksIdle
    /\ script = DeviceScript(call.dev)

\* Time passes while the task polls and reads, or is preempted; the loop
\* sees it when it reads the clock for its condition (lines 1440-1441).
\* Time after both limits is not told apart.
FillTick ==
    /\ pc = "fill"
    /\ now - fill.startTimeMs < Max(fill.timeoutMs, fill.maxTimeMs)
    /\ now' = now + BlockMs
    /\ UNCHANGED <<uartRx, ring, locked, mutex, pc, call, rxArgs, rx, fill, ret, resp,
                   hist, tasks, script>>

NextFill == DeviceSend \/ FillTick \/ FillIter

SpecFill == InitFill /\ [][NextFill]_vars

\* The task is scheduled as long as the loop runs, and the clock is not
\* stopped by it; nothing is assumed of the device.
FairFill == SpecFill /\ WF_vars(FillIter) /\ WF_vars(FillTick)

(***************************************************************************)
(* uGnssPrivateStreamFillRingBuffer run by the application task and by the *)
(* message receive task of one instance at the same time.  A pass is two   *)
(* steps, the read from the transport into the task's temporary buffer     *)
(* and the forced add to the ring buffer; each of the two calls is atomic, *)
(* nothing in the function holds the two together.  The device sends       *)
(* numbered bytes; fill holds what the two temporary buffers contain.      *)
(***************************************************************************)
NumBytes == 6
Fillers == {"app", "msgReceive"}

\* The bytes 1..NumBytes, as the device sends them: one at a time, then in
\* pairs.
NumberedScript ==
    [i \in 1..(NumBytes \div 2 + 1) |->
        IF i <= 2 THEN <<i>>
        ELSE IF 2 * i - 2 <= NumBytes THEN <<2 * i - 3, 2 * i - 2>>
        ELSE <<2 * i - 3>>]

\* Lines 1349-1358: the message receive task uses its own temporary
\* buffer, everybody else the instance's.
FillTemporaryBuffer(task) == IF task = "msgReceive" THEN "msgReceive" ELSE "instance"

\* A read of data into a buffer writes over the start of what it held.
BufferWrite(buffer, data) == data \o Drop(buffer, Len(data))

FillerIdle == [pc |-> "poll", receiveSize |-> 0, pTemporaryBuffer |-> "none", read |-> <<>>]

InitFillers ==
    /\ now = 0
    /\ uartRx = <<>>
    /\ call \in [fn : {"fillers"}, transport : {"UART", "I2C"}, dev : {"numbered"}]
    /\ ring = [h \in Handles |-> <<>>]
    /\ locked = [h \in Handles |-> FALSE]
    /\ mutex = "none"
    /\ pc = "fillers"
    /\ rxArgs = NoArgs
    /\ rx = RxIdle
    /\ fill = [instance |-> <<>>, msgReceive |-> <<>>]
    /\ ret = 0
    /\ resp = <<>>
    /\ hist = Hist0
    /\ tasks = [t \in Fillers |-> FillerIdle]
    /\ script = NumberedScript

\* Lines 1377-1412 in task t: a poll that finds bytes, and the read of
\* them into the task's temporary buffer.
FillRead(t) ==
    /\ tasks[t].pc = "poll"
    /\ LET pTemporaryBuffer == FillTemporaryBuffer(t)
           avail == uRingBufferAvailableSizeMax(ring, locked)
           n == FillReadSize(uGnssPrivateGetStreamType(call.transport), Len(uartRx), avail)
       IN /\ n > 0
          /\ uartRx' = Drop(uartRx, n)
          /\ fill' = [fill EXCEPT ![pTemporaryBuffer] = BufferWrite(@, Take(uartRx, n))]
          /\ tasks' = [tasks EXCEPT ![t] = [pc |-> "add", receiveSize |-> n,
                                            pTemporaryBuffer |-> pTemporaryBuffer,
                                            read |-> Take(uartRx, n)]]
    /\ UNCHANGED <<now, ring, locked, mutex, pc, call, rxArgs, rx, ret, resp, hist, script>>

\* Lines 1413-1423 in task t: receiveSize bytes of the temporary buffer
\* are added to the ring buffer, and the loop goes round.
FillAdd(t) ==
    /\ tasks[t].pc = "add"
    /\ \E add \in {uRingBufferForceAdd(ring, locked,
                        Take(fill[tasks[t].pTemporaryBuffer], tasks[t].receiveSize))} :
          ring' = add.ring
    /\ tasks' = [tasks EXCEPT ![t] = FillerIdle]
    /\ UNCHANGED <<now, uartRx, locked, mutex, pc, call, rxArgs, rx, fill, ret, resp,
                   hist, script>>

NextFillers == DeviceSend \/ (\E t \in Fillers : FillRead(t)) \/ (\E t \in Fillers : FillAdd(t))

SpecFillers == InitFillers /\ [][NextFillers]_vars

(***************************************************************************)
(* Functions of the library and of the example applications that are       *)
(* called once with their arguments and return: call holds the arguments,  *)
(* ret the value returned, resp what the function left behind.             *)
(***************************************************************************)
\* uNetworkPrivateChangeStateCell (u_network_private_cell.c, lines 137-174):
\* instanceError is what uDeviceGetInstance returned, pContext whether the
\* device has a cellular context, netResult what uCellNetConnect or
\* uCellNetDisconnect returns when called.
uNetworkPrivateChangeStateCell(instanceError, pContext, pCfg, upNotDown, netResult) ==
    IF instanceError # 0 THEN [rc |-> instanceError, did |-> "nothing"]
    ELSE IF pCfg.given /\ (pCfg.version = 0) /\ (pCfg.type = "CELL") /\ pContext
        THEN [rc |-> netResult, did |-> IF upNotDown THEN "connect" ELSE "disconnect"]
    ELSE [rc |-> U_ERROR_COMMON_INVALID_PARAMETER, did |-> "nothing"]

NullCfg == [given |-> FALSE, version |-> 0, type |-> "NONE"]

ChangeStateCalls ==
    [fn : {"changeStateCell"}, instanceError : {0, U_ERROR_COMMON_INVALID_PARAMETER},
     pContext : BOOLEAN, upNotDown : BOOLEAN, netResult : {0, U_ERROR_COMMON_TIMEOUT},
     pCfg : {NullCfg} \cup [given : {TRUE}, version : {0, 1}, type : {"CELL", "WIFI"}]]

\* U_GNSS_PROTOCOL_UBX is 0 and U_GNSS_PROTOCOL_NMEA 1 (u_gnss_types.h).
ProtocolBit(protocol) == IF protocol = "UBX" THEN 0 ELSE 1

\* uGnssPrivateSetProtocolOut (lines 886-965): poll1 and poll2 are what the
\* two polls of UBX-MON-MSGPP return and count1, count2 the message counts
\* of the port in them, cfgPoll and oldMask what the poll of UBX-CFG-PRT
\* returns, send what sending the new UBX-CFG-PRT returns.  The counts are
\* 64-bit and far from wrapping, so their difference is the plain one.
uGnssPrivateSetProtocolOut(c) ==
    IF c.transportAt \/ ~(c.onNotOff \/ (c.protocol \notin {"ALL", "UBX"}))
        THEN [rc |-> U_ERROR_COMMON_INVALID_PARAMETER, sentMask |-> -1]
    ELSE IF (c.poll1 # 120) \/ (c.cfgPoll # 20)
        THEN [rc |-> U_ERROR_COMMON_PLATFORM, sentMask |-> -1]
    ELSE LET mask == IF c.protocol = "ALL" THEN 65535
                     ELSE IF c.onNotOff THEN BitOr(c.oldMask, 2 ^ ProtocolBit(c.protocol))
                     ELSE BitAnd(c.oldMask, 65535 - 2 ^ ProtocolBit(c.protocol))
         IN [rc |-> IF (c.poll2 = 120) /\ (c.count2 - c.count1 = 3)
                        THEN U_ERROR_COMMON_SUCCESS
                    ELSE c.send,
             sentMask |-> mask]

SetProtocolCalls ==
    [fn : {"setProtocolOut"}, transportAt : BOOLEAN, protocol : {"ALL", "UBX", "NMEA"},
     onNotOff : BOOLEAN, poll1 : {120, U_ERROR_COMMON_TIMEOUT}, count1 : {0, 2},
     cfgPoll : {20, U_ERROR_COMMON_TIMEOUT}, oldMask : {3},
     send : {0, U_ERROR_COMMON_PLATFORM}, poll2 : {120, U_ERROR_COMMON_TIMEOUT},
     count2 : {3, 5}]

\* strncpy(dest, src, n) into an array of n characters: the characters of
\* src up to n of them, the rest of the array filled with zeros; no zero
\* is written when src has n characters or more.
Strncpy(src, n) == [i \in 1..n |-> IF i <= Len(src) THEN src[i] ELSE 0]

\* uGnssPrivateMessageIdToPrivate (lines 1105-1138): the return value and
\* the private message id; nmea is the array id.nmea of
\* U_GNSS_NMEA_MESSAGE_MATCH_LENGTH_CHARACTERS + 1 characters, of which only
\* the first is written when pNmea is NULL.
uGnssPrivateMessageIdToPrivate(pMessageId) ==
    LET size == U_GNSS_NMEA_MESSAGE_MATCH_LENGTH_CHARACTERS + 1
        none == [i \in 1..size |-> 0]
    IN IF pMessageId.type = "UBX"
           THEN [rc |-> U_ERROR_COMMON_SUCCESS, type |-> "UBX", ubx |-> pMessageId.ubx,
                 nmea |-> none, rtcm |-> 0]
       ELSE IF pMessageId.type = "NMEA"
           THEN [rc |-> U_ERROR_COMMON_SUCCESS, type |-> "NMEA", ubx |-> 0,
                 nmea |-> IF pMessageId.pNmeaGiven THEN Strncpy(pMessageId.pNmea, size)
                          ELSE none,
                 rtcm |-> 0]
       ELSE IF pMessageId.type = "RTCM"
           THEN [rc |-> U_ERROR_COMMON_SUCCESS, type |-> "RTCM", ubx |-> 0,
                 nmea |-> none, rtcm |-> pMessageId.rtcm]
       ELSE IF pMessageId.type = "UNKNOWN"
           THEN [rc |-> U_ERROR_COMMON_SUCCESS, type |-> "UNKNOWN", ubx |-> 0,
                 nmea |-> none, rtcm |-> 0]
       ELSE [rc |-> U_ERROR_COMMON_INVALID_PARAMETER, type |-> pMessageId.type, ubx |-> 0,
             nmea |-> none, rtcm |-> 0]

\* Public NMEA ids: "G" repeated, from no character to two more than the
\* private id can hold.
PublicNmeaIds ==
    {[i \in 1..n |-> 71] : n \in 0..(U_GNSS_NMEA_MESSAGE_MATCH_LENGTH_CHARACTERS + 3)}

IdToPrivateCalls ==
    [fn : {"idToPrivate"}, type : {"UBX", "NMEA", "RTCM", "UNKNOWN", "ALL"},
     ubx : {263}, rtcm : {1005}, pNmeaGiven : BOOLEAN, pNmea : PublicNmeaIds]

\* The example applications (cloudlocate-example and
\* celllocate-wifi-example, src/main.c): the longest strings of the
\* configuration, terminator included.
APN_MAXLEN == 50
CLIENT_ID_MAXLEN == 50
USERNAME_MAXLEN == 25
PASSWORD_MAXLEN == 50
CELL_LOCATE_TOKEN_MAXLEN == 25
CELL_LOCATE_SERVER_URL_MAXLEN == 100

\* a < b between two uint32_t, each given by the int32_t with the same 32
\* bits: integerParameter is uint32_t, so every comparison with it is made
\* in uint32_t, the int constant converted.
U32Less(a, b) == IF (a < 0) = (b < 0) THEN a < b ELSE b < 0

\* What the applications start with (cloudlocate-example lines 181-190,
\* celllocate-wifi-example lines 149-162); a string is kept by its length
\* ("tsiot", "cell-live1.services.u-blox.com").
CloudLocateConfig0 ==
    [usernameLen |-> 0, passwordLen |-> 0, clientIdLen |-> 0, apnLen |-> 5,
     cellRegistrationTimeout |-> 40, numOfSecondsToWaitForFirstMessage |-> 10,
     compactMsgTimeoutInSecs |-> 200, fallbackNavpvtEnabled |-> TRUE,
     fallbackTimeoutInSecs |-> 80, configurationDone |-> FALSE]

CellLocateConfig0 ==
    [urlLen |-> 30, tokenLen |-> 0, apnLen |-> 5, cellRegistrationTimeout |-> 40,
     numWifiAP |-> 15, wifiApSignalStrength |-> -90, configurationDone |-> FALSE]

\* setConfigParameters of cloudlocate-example (lines 550-618): a holds argc,
\* the lengths of argv[1..4] and atoi() of argv[5..9].
SetConfigCloudLocate(a, cfg) ==
    IF a.argc # 10 THEN [rc |-> 0, cfg |-> cfg]
    ELSE LET invalid ==
                 \/ a.usernameLen >= USERNAME_MAXLEN
                 \/ a.passwordLen >= PASSWORD_MAXLEN
                 \/ a.clientIdLen >= CLIENT_ID_MAXLEN
                 \/ a.apnLen >= APN_MAXLEN
                 \/ U32Less(a.cellRegistrationTimeout, 0)
                       /\ ~U32Less(a.cellRegistrationTimeout, 300)
                 \/ U32Less(a.firstMessage, 0) /\ U32Less(60, a.firstMessage)
                 \/ U32Less(a.compactTimeout, 0) /\ U32Less(300, a.compactTimeout)
                 \/ (a.navpvt # 1) /\ (a.navpvt # 0)
                 \/ U32Less(a.fallbackTimeout, 0) /\ U32Less(60, a.fallbackTimeout)
         IN IF invalid THEN [rc |-> 1, cfg |-> cfg]
            ELSE [rc |-> 0,
                  cfg |-> [usernameLen |-> a.usernameLen, passwordLen |-> a.passwordLen,
                           clientIdLen |-> a.clientIdLen, apnLen |-> a.apnLen,
                           cellRegistrationTimeout |-> a.cellRegistrationTimeout,
                           numOfSecondsToWaitForFirstMessage |-> a.firstMessage,
                           compactMsgTimeoutInSecs |-> a.compactTimeout,
                           fallbackNavpvtEnabled |-> (a.navpvt # 0),
                           fallbackTimeoutInSecs |-> a.fallbackTimeout,
                           configurationDone |-> TRUE]]

\* setConfigParameters of celllocate-wifi-example (lines 433-484): a holds
\* argc, the lengths of argv[1..3] and atoi() of argv[4..6].
SetConfigCellLocate(a, cfg) ==
    IF a.argc # 7 THEN [rc |-> 0, cfg |-> cfg]
    ELSE LET invalid ==
                 \/ a.urlLen >= CELL_LOCATE_SERVER_URL_MAXLEN
                 \/ a.tokenLen >= CELL_LOCATE_TOKEN_MAXLEN
                 \/ a.apnLen >= APN_MAXLEN
                 \/ U32Less(a.cellRegistrationTimeout, 0)
                       /\ ~U32Less(a.cellRegistrationTimeout, 300)
                 \/ U32Less(a.numWifiAP, 5) /\ U32Less(15, a.numWifiAP)
                 \/ U32Less(a.wifiApSignalStrength, -100)
                       /\ U32Less(0, a.wifiApSignalStrength)
         IN IF invalid THEN [rc |-> 1, cfg |-> cfg]
            ELSE [rc |-> 0,
                  cfg |-> [urlLen |-> a.urlLen, tokenLen |-> a.tokenLen,
                           apnLen |-> a.apnLen,
                           cellRegistrationTimeout |-> a.cellRegistrationTimeout,
                           numWifiAP |-> a.numWifiAP,
                           wifiApSignalStrength |-> a.wifiApSignalStrength,
                           configurationDone |-> TRUE]]

\* `config set` in the two applications, with one argument short and with
\* all of them; strings that fit and strings too long, numbers inside and
\* outside the ranges of the error messages.
SetConfigCalls ==
    [fn : {"setConfigCloudLocate"}, argc : {9, 10}, usernameLen : {10, USERNAME_MAXLEN},
     passwordLen : {10}, clientIdLen : {10}, apnLen : {3, APN_MAXLEN},
     cellRegistrationTimeout : {40, 1000}, firstMessage : {10, 100},
     compactTimeout : {200, 1000}, navpvt : {1, 2}, fallbackTimeout : {30, -1}]
    \cup
    [fn : {"setConfigCellLocate"}, argc : {6, 7},
     urlLen : {10, CELL_LOCATE_SERVER_URL_MAXLEN}, tokenLen : {5, CELL_LOCATE_TOKEN_MAXLEN},
     apnLen : {3}, cellRegistrationTimeout : {40, 0, 1000}, numWifiAP : {10, 3, 20},
     wifiApSignalStrength : {-90, 5, -200}]

InitCalls ==
    /\ now = 0
    /\ uartRx = <<>>
    /\ call \in ChangeStateCalls \cup SetProtocolCalls \cup IdToPrivateCalls
                \cup SetConfigCalls
    /\ ring = [h \in Handles |-> <<>>]
    /\ locked = [h \in Handles |-> FALSE]
    /\ mutex = "none"
    /\ pc = "call"
    /\ rxArgs = NoArgs
    /\ rx = RxIdle
    /\ fill = FillIdle
    /\ ret = 0
    /\ resp = <<>>
    /\ hist = Hist0
    /\ tasks = TasksIdle
    /\ script = <<>>

RunChangeStateCell ==
    /\ pc = "call"
    /\ call.fn = "changeStateCell"
    /\ \E r \in {uNetworkPrivateChangeStateCell(call.instanceError, call.pContext,
                                                call.pCfg, call.upNotDown,
                                                call.netResult)} :
          /\ ret' = r.rc
          /\ resp' = r.did
    /\ pc' = "returned"
    /\ UNCHANGED <<now, uartRx, ring, locked, mutex, call, rxArgs, rx, fill, hist,
                   tasks, script>>

RunSetProtocolOut ==
    /\ pc = "call"
    /\ call.fn = "setProtocolOut"
    /\ \E r \in {uGnssPrivateSetProtocolOut(call)} :
          /\ ret' = r.rc
          /\ resp' = r.sentMask
    /\ pc' = "returned"
    /\ UNCHANGED <<now, uartRx, ring, locked, mutex, call, rxArgs, rx, fill, hist,
                   tasks, script>>

RunIdToPrivate ==
    /\ pc = "call"
    /\ call.fn = "idToPrivate"
    /\ \E r \in {uGnssPrivateMessageIdToPrivate(call)} :
          /\ ret' = r.rc
          /\ resp' = r
    /\ pc' = "returned"
    /\ UNCHANGED <<now, uartRx, ring, locked, mutex, call, rxArgs, rx, fill, hist,
                   tasks, script>>

RunSetConfig ==
    /\ pc = "call"
    /\ call.fn \in {"setConfigCloudLocate", "setConfigCellLocate"}
    /\ \E r \in {IF call.fn = "setConfigCloudLocate"
                      THEN SetConfigCloudLocate(call, CloudLocateConfig0)
                   ELSE SetConfigCellLocate(call, CellLocateConfig0)} :
          /\ ret' = r.rc
          /\ resp' = r.cfg
    /\ pc' = "returned"
    /\ UNCHANGED <<now, uartRx, ring, locked, mutex, call, rxArgs, rx, fill, hist,
                   tasks, script>>

NextCalls == RunChangeStateCell \/ RunSetProtocolOut \/ RunIdToPrivate \/ RunSetConfig

SpecCalls == InitCalls /\ [][NextCalls]_vars

(***************************************************************************)
(* Properties.                                                             *)
(***************************************************************************)
Returned == pc = "done"

\* A direct call of uGnssPrivateReceiveStreamMessage whose parameters pass
\* the check at lines 1597-1598.
RecvCall == (call.fn = "recv") /\ ((~call.bufGiven) \/ (call.size > 0))

Elapsed == now - rx.startTimeMs

\* The items uRingBufferParseHandle finds in s, one after another.
RECURSIVE Items(_)
Items(s) ==
    LET p == uRingBufferParseHandle(s)
    IN IF p.len <= 0 THEN <<>>
       ELSE <<[len |-> p.len, id |-> p.id, bytes |-> Take(s, p.len)]>>
                \o Items(Drop(s, p.len))

IsWanted(item, wanted) == uGnssPrivateMessageIdIsWanted(item.id, wanted)

\* A UBX-ACK-NACK frame whose payload names a class and id the wanted UBX
\* pattern covers.
IsNackFor(item, wanted) ==
    /\ wanted.type = "UBX"
    /\ item.id.type = "UBX"
    /\ item.len = 10
    /\ item.bytes[3] = 5
    /\ item.bytes[4] = 0
    /\ ubxIdMatch((256 * item.bytes[7]) + item.bytes[8], wanted.ubx)

\* The last decode reached item k: no item ahead of it ended the search.
Reached(its, k, wanted) ==
    \A j \in 1..(k - 1) : ~IsWanted(its[j], wanted) /\ ~IsNackFor(its[j], wanted)

RECURSIVE SumLen(_, _)
SumLen(its, k) == IF k <= 0 THEN 0 ELSE its[k].len + SumLen(its, k - 1)

UbxBody(frame) == SubSeq(frame, U_UBX_PROTOCOL_HEADER_LENGTH_BYTES + 1, Len(frame) - 2)

\* C1: for one instance at most one task at a time is inside the
\* send+receive cycle of sendReceiveUbxMessage (from just before its command
\* is written until its wait for the response has ended), on streaming and
\* AT transports alike, and while a task is inside it no other task is
\* writing a command to the transport, be it from sendReceiveUbxMessage or
\* from uGnssPrivateSendOnlyStreamUbxMessage.
InCycle(t) ==
    (tasks[t].fn = "sendReceive") /\ (tasks[t].pc \in {"send", "writing", "receive"})

C1_OneCycleAtATime ==
    \A t \in Tasks :
        InCycle(t) =>
            \A u \in Tasks \ {t} : (~InCycle(u)) /\ (tasks[u].pc # "writing")

C1_Witness ==
    \E t \in Tasks, u \in Tasks, v \in Tasks :
        /\ call.transport = "AT"
        /\ tasks[t].fn = "sendReceive" /\ tasks[t].pc = "receive"
        /\ tasks[u].fn = "sendOnly" /\ tasks[u].pc = "lock"
        /\ tasks[v].fn = "sendReceive" /\ tasks[v].pc = "lock"

\* C2: whenever uGnssPrivateReceiveStreamMessage or sendReceiveUbxMessage has
\* returned after locking the read handle, the handle is unlocked: at the
\* return of the former into the latter and at the return to the caller,
\* whatever the exit path (match, timeout, NACK, no memory, transport error,
\* cancellation by the callback).
C2_UnlockedOnReturn ==
    ((pc \in {"srFinish", "done"}) /\ hist.everLocked) => ~locked["private"]

C2_Witness ==
    /\ Returned
    /\ hist.everLocked
    /\ hist.cbStop
    /\ ret = U_ERROR_COMMON_TIMEOUT
    /\ ~locked["private"]

\* C3: with a device that never delivers a byte and nothing buffered,
\* uGnssPrivateReceiveStreamMessage called with timeoutMs = T > 0 and no
\* callback eventually returns, what it returns is U_ERROR_COMMON_TIMEOUT,
\* and it has not returned before T milliseconds have passed.
C3_Silent ==
    /\ RecvCall
    /\ call.dev = "silent"
    /\ call.ring0 = <<>>
    /\ call.timeoutMs > 0
    /\ ~call.hasCb

C3_TimeoutAfterT ==
    /\ []((C3_Silent /\ Returned) =>
              ((ret = U_ERROR_COMMON_TIMEOUT) /\ (Elapsed >= call.timeoutMs)))
    /\ (C3_Silent ~> Returned)

C3_Witness ==
    /\ C3_Silent
    /\ Returned
    /\ ret = U_ERROR_COMMON_TIMEOUT
    /\ Elapsed >= call.timeoutMs

\* C4: when the device sends without end but never a frame of the wanted
\* id, uGnssPrivateReceiveStreamMessage called with timeoutMs = T > 0 still
\* returns: it returns the timeout error, it does not start another pass of
\* its loop once T has passed, and unless the callback has stopped it, it
\* returns after T.
C4_Flood ==
    /\ RecvCall
    /\ call.dev = "flood"
    /\ call.wanted \in {UbxId(263), NmeaId(<<>>)}
    /\ call.ring0 \in {<<>>, Take(FramePvt, 7)}
    /\ call.timeoutMs > 0

C4_BoundedUnderTraffic ==
    /\ []((C4_Flood /\ Returned) =>
              /\ ret = U_ERROR_COMMON_TIMEOUT
              /\ (~hist.cbStop) => (Elapsed >= call.timeoutMs))
    /\ []((C4_Flood /\ (pc = "fill") /\ (hist.passes > 0)) =>
              (fill.startTimeMs - rx.startTimeMs < call.timeoutMs))
    /\ (C4_Flood ~> Returned)

C4_Witness ==
    /\ C4_Flood
    /\ Returned
    /\ hist.passes = 2
    /\ hist.decIn # <<>>
    /\ ~hist.slept
    /\ ret = U_ERROR_COMMON_TIMEOUT

\* C5: uGnssPrivateReceiveStreamMessage called with timeoutMs = 0 makes
\* exactly one pass, with one poll of the transport and no sleep, and a
\* wanted frame that was complete in the buffer when the call began is what
\* that pass returns (given a buffer that holds it).
C5_WantedInBuffer ==
    IF (call.wanted = UbxId(263)) /\ (call.ring0 \in {FramePvt, FrameMonVer \o FramePvt})
        THEN FramePvt
    ELSE IF (call.wanted = AnyUbx) /\ (call.ring0 = FramePvt) THEN FramePvt
    ELSE IF (call.wanted = AnyUbx) /\ (call.ring0 = FrameMonVer \o FramePvt) THEN FrameMonVer
    ELSE <<>>

C5_ZeroTimeoutOnePass ==
    (RecvCall /\ (call.timeoutMs = 0) /\ Returned) =>
        /\ hist.passes = 1
        /\ hist.polls = 1
        /\ ~hist.slept
        /\ ((C5_WantedInBuffer # <<>>)
              /\ (call.bufGiven => (call.size >= Len(C5_WantedInBuffer)))
              /\ (ret # U_ERROR_COMMON_NO_MEMORY)) =>
                 /\ ret = Len(C5_WantedInBuffer)
                 /\ rx.buffer = C5_WantedInBuffer

C5_Witness ==
    /\ RecvCall
    /\ call.timeoutMs = 0
    /\ call.ring0 = FrameMonVer \o FramePvt
    /\ call.wanted = UbxId(263)
    /\ Returned
    /\ ret = Len(FramePvt)
    /\ rx.buffer = FramePvt
    /\ hist.passes = 1

\* What C6 says follows a NACK: the decode has answered U_GNSS_ERROR_NACK,
\* the loop is not gone round again, and U_GNSS_ERROR_NACK is returned.
C6_EndsWithNack ==
    /\ hist.decRc = U_GNSS_ERROR_NACK
    /\ pc \in {"rxCond", "srFinish", "done"}
    /\ (pc = "rxCond") => ((rx.errorCodeOrLength = U_GNSS_ERROR_NACK) /\ ~RxKeepWaiting)
    /\ (pc # "rxCond") => (ret = U_GNSS_ERROR_NACK)

\* C6 as stated: any UBX-ACK-NACK frame the decode reaches whose payload
\* class/id matches the wanted UBX pattern ends the search with
\* U_GNSS_ERROR_NACK, which uGnssPrivateReceiveStreamMessage returns without
\* waiting for the deadline.
C6_AsStated ==
    LET its == Items(hist.decIn)
    IN \A k \in 1..Len(its) :
          (Reached(its, k, hist.decId) /\ IsNackFor(its[k], hist.decId))
              => C6_EndsWithNack

\* C6, amended: a UBX-ACK-NACK frame the decode reaches that does not itself
\* match the wanted id, and whose payload class/id matches the wanted UBX
\* pattern, ends the search with U_GNSS_ERROR_NACK, which
\* uGnssPrivateReceiveStreamMessage returns without waiting for the deadline.
C6_NackShortCircuit ==
    LET its == Items(hist.decIn)
    IN \A k \in 1..Len(its) :
          (Reached(its, k, hist.decId) /\ IsNackFor(its[k], hist.decId)
             /\ ~IsWanted(its[k], hist.decId))
              => C6_EndsWithNack

C6_Witness ==
    /\ RecvCall
    /\ call.dev = "nack"
    /\ call.wanted = UbxId(263)
    /\ call.timeoutMs > 0
    /\ Returned
    /\ ret = U_GNSS_ERROR_NACK
    /\ Len(Items(hist.decIn)) = 2
    /\ Elapsed < call.timeoutMs

\* C7: the decode removes every complete item ahead of the first one that
\* is wanted (or is a NACK for the wanted id) in full, the read handle
\* moving on by exactly their lengths, and when that first one is a wanted
\* frame the same decode returns its length with the frame at the read
\* handle, however many unwanted items were ahead of it.
C7_Stop(its, wanted) ==
    IF \E k \in 1..Len(its) : IsWanted(its[k], wanted) \/ IsNackFor(its[k], wanted)
        THEN CHOOSE k \in 1..Len(its) :
                 /\ IsWanted(its[k], wanted) \/ IsNackFor(its[k], wanted)
                 /\ Reached(its, k, wanted)
    ELSE Len(its) + 1

C7_UnwantedRemovedInFull ==
    LET its == Items(hist.decIn)
        k == C7_Stop(its, hist.decId)
        found == (k <= Len(its)) /\ IsWanted(its[k], hist.decId)
        nack == (k <= Len(its)) /\ ~IsWanted(its[k], hist.decId)
    IN /\ hist.decRest = Drop(hist.decIn,
                              SumLen(its, k - 1) + (IF nack THEN its[k].len ELSE 0))
       /\ found => /\ hist.decRc = its[k].len
                   /\ Take(hist.decRest, hist.decRc) = its[k].bytes
       /\ (k > Len(its)) => (hist.decRc <= 0)

C7_Witness ==
    LET its == Items(hist.decIn)
    IN /\ Len(its) = 3
       /\ C7_Stop(its, hist.decId) = 3
       /\ IsWanted(its[3], hist.decId)
       /\ hist.decRc = its[3].len
       /\ Returned
       /\ ret = its[3].len

\* C8 as stated: when the matched frame is longer than the caller's buffer
\* of size bytes, uGnssPrivateReceiveStreamMessage returns size with the
\* first size bytes of the frame in the buffer and nothing of the frame is
\* still owed to the read handle.
C8_AsStated ==
    (RecvCall /\ Returned /\ hist.truncated) =>
        /\ ret = call.size
        /\ Take(rx.buffer, call.size) = Take(hist.matched, call.size)
        /\ rx.discardSize = 0

\* C9 as stated: what uGnssPrivateReceiveStreamMessage delivers on a match
\* is the body of the frame, without the header and the checksum.
C9_AsStated ==
    (RecvCall /\ Returned /\ (ret > 0) /\ (hist.matched # <<>>) /\ (~hist.truncated)
       /\ (hist.passesSinceMatch = 0) /\ (hist.decId.type = "UBX")) =>
        /\ ret = Len(UbxBody(hist.matched))
        /\ Take(rx.buffer, ret) = UbxBody(hist.matched)

\* C9, amended: what uGnssPrivateReceiveStreamMessage delivers on a match is
\* the whole frame, header and checksum included; it is
\* receiveUbxMessageStream that hands on the body only, for the callers of
\* sendReceiveUbxMessage.
C9_WholeFrameDelivered ==
    /\ (RecvCall /\ Returned /\ (ret > 0) /\ (hist.matched # <<>>) /\ (~hist.truncated)
          /\ (hist.passesSinceMatch = 0)) =>
           /\ ret = Len(hist.matched)
           /\ Take(rx.buffer, ret) = hist.matched
    /\ ((call.fn = "sendrecv") /\ (call.respMode # "ack") /\ Returned /\ (ret >= 0)
          /\ (hist.matched # <<>>)) =>
           /\ ret = IF call.respMode = "fixed"
                       THEN Min(Len(UbxBody(hist.matched)), call.size)
                    ELSE Len(UbxBody(hist.matched))
           /\ resp = Take(UbxBody(hist.matched), ret)

C9_Witness ==
    /\ RecvCall
    /\ Returned
    /\ ret = Len(FramePvt)
    /\ hist.matched = FramePvt
    /\ rx.buffer = FramePvt

\* C10: after every pass of the loop that has left no result, with the
\* deadline not reached, the keep-going callback is called; when it answers
\* false the function returns at once (the timeout error when nothing was
\* found), the read handle unlocked, and when it answers true the loop goes
\* round again.
C10_NoResult ==
    /\ rx.errorCodeOrLength < 0
    /\ rx.errorCodeOrLength # U_GNSS_ERROR_NACK
    /\ rx.errorCodeOrLength # U_ERROR_COMMON_NO_MEMORY

C10_CallbackEveryPass ==
    [][((pc = "rxCond") /\ (pc' # "rxCond") /\ rxArgs.hasCb /\ C10_NoResult
          /\ (rxArgs.timeoutMs > 0) /\ (Elapsed < rxArgs.timeoutMs)) =>
             /\ hist'.cbAsked
             /\ hist'.cbStop =>
                   /\ pc' = rxArgs.retPc
                   /\ ret' = rx.errorCodeOrLength
                   /\ (~hist.found) => (ret' = U_ERROR_COMMON_TIMEOUT)
                   /\ ~locked'[rxArgs.handle]
             /\ (~hist'.cbStop) => (pc' = "fill")]_vars

C10_Witness ==
    /\ RecvCall
    /\ Returned
    /\ hist.cbStop
    /\ hist.passes = 2
    /\ ret = U_ERROR_COMMON_TIMEOUT
    /\ Elapsed < call.timeoutMs

\* The frame a call of sendReceiveUbxMessage got as the response: on AT what
\* the module answered, on a stream the frame the receive matched.
SrResponse == IF call.transport = "AT" THEN hist.atResponse ELSE hist.matched

AckCall == (call.fn = "sendrecv") /\ (call.respMode = "ack")

\* A complete UBX frame of class 0x05 and the given id whose body is exactly
\* the class and id of the command.
IsAckFrame(f, id) == f = UbxFrame(5, id, <<call.cls, call.id>>)

\* A complete UBX frame of class 0x05 whose body begins with the class and
\* id of the command.
BeginsLikeAck(f) ==
    /\ Len(f) >= 10
    /\ uGnssPrivateParseUbx(f).rc = U_ERROR_COMMON_SUCCESS
    /\ f[3] = 5
    /\ f[7] = call.cls
    /\ f[8] = call.id

C12_AsStated ==
    ((call.fn = "sendrecv") /\ (call.respMode # "none") /\ (call.dev = "silent")
       /\ (call.transport # "AT") /\ Returned /\ (hist.passes > 0)) =>
        (ret = U_ERROR_COMMON_TIMEOUT)

\* C13: uGnssPrivateSendReceiveUbxMessage writes at most
\* maxResponseBodyLengthBytes bytes to pResponseBody; when it has a response
\* it returns the smaller of the body's length and
\* maxResponseBodyLengthBytes, with that many bytes from the start of the
\* body written, on a stream and on AT.
C13_FixedCall == (call.fn = "sendrecv") /\ (call.respMode = "fixed")

C13_WitnessAt ==
    /\ C13_FixedCall
    /\ call.size = TinySize
    /\ call.transport = "AT"
    /\ Returned
    /\ hist.atResponse = FramePvt
    /\ ret = TinySize

(***************************************************************************)
(* The parsers (SpecParse).                                                *)
(***************************************************************************)
\* Parser p has run on the input.
ParsedBy(p) == pc = "parsed" /\ hist.parser = p

\* The input is a frame as it was made, whole.
WholeFrame == call.flipPos = 0 /\ call.cut = Len(call.frame)

\* C14: for every class, id and body, the UBX frame encoded from them is
\* parsed by the UBX parser with success, the parser takes exactly
\* 8 + Len(body) bytes and the id it writes is UBX, class * 256 + id.
C14_UbxRoundTrip ==
    (ParsedBy("UBX") /\ call.proto = "UBX" /\ WholeFrame)
        => /\ ret = U_ERROR_COMMON_SUCCESS
           /\ hist.parsed = U_UBX_PROTOCOL_OVERHEAD_LENGTH_BYTES + Len(call.src.body)
           /\ rx.id = UbxId(call.src.cls * 256 + call.src.id)

C14_Witness ==
    /\ ParsedBy("UBX") /\ call.proto = "UBX" /\ WholeFrame
    /\ call.src = [cls |-> 1, id |-> 7, body |-> <<222, 173, 190, 239>>]
    /\ hist.parsed = 12
    /\ rx.id = UbxId(263)

C14_WitnessEmptyBody ==
    /\ ParsedBy("UBX") /\ call.proto = "UBX" /\ WholeFrame
    /\ call.src.body = <<>>
    /\ hist.parsed = 8

\* One byte of the frame has another value and the frame is wholly buffered.
OneByteChanged == call.flipPos > 0 /\ call.cut = Len(call.frame)

\* C15: a valid, wholly buffered UBX frame of which one byte of the body or
\* one of the two checksum bytes has another value makes the UBX parser
\* return not-found.
C15_CorruptionRejected ==
    (ParsedBy("UBX") /\ call.proto = "UBX" /\ OneByteChanged
        /\ call.flipPos > U_UBX_PROTOCOL_HEADER_LENGTH_BYTES)
        => ret = U_ERROR_COMMON_NOT_FOUND

\* The last checksum byte of a frame with a body is changed.
C15_Witness ==
    /\ ParsedBy("UBX") /\ call.proto = "UBX" /\ OneByteChanged
    /\ call.src.body # <<>>
    /\ call.flipPos = Len(call.frame)
    /\ ret = U_ERROR_COMMON_NOT_FOUND

\* A byte of the body is changed.
C15_WitnessBody ==
    /\ ParsedBy("UBX") /\ call.proto = "UBX" /\ OneByteChanged
    /\ call.flipPos > U_UBX_PROTOCOL_HEADER_LENGTH_BYTES
    /\ call.flipPos <= U_UBX_PROTOCOL_HEADER_LENGTH_BYTES + Len(call.src.body)
    /\ ret = U_ERROR_COMMON_NOT_FOUND

\* The input is a whole frame that parser p is made for.  An NMEA token has
\* at most U_GNSS_NMEA_MESSAGE_MATCH_LENGTH_CHARACTERS characters; the RTCM
\* frames are those of RtcmAsParsed.
OwnFrame(p) ==
    /\ WholeFrame
    /\ call.proto = p
    /\ p = "NMEA" => Len(call.src.tok) <= U_GNSS_NMEA_MESSAGE_MATCH_LENGTH_CHARACTERS

\* The input is a whole frame of another protocol than that of parser p.
OtherFrame(p) ==
    /\ WholeFrame
    /\ call.proto # p
    /\ ~(p = "RTCM" /\ call.proto = "RTCM10403")

\* The id the frame of the input carries.
IdOfFrame ==
    CASE call.proto = "UBX" -> UbxId(call.src.cls * 256 + call.src.id)
      [] call.proto = "NMEA" -> NmeaId(call.src.tok)
      [] OTHER -> RtcmId((call.src.payload[2] \div 16) + call.src.payload[1] * 16)

\* C16 as stated: a parser that recognises a whole frame returns a positive
\* value, the length of the frame.
C16_AsStated ==
    \A p \in {"UBX", "NMEA", "RTCM"} :
        (ParsedBy(p) /\ OwnFrame(p)) => (ret > 0 /\ ret = Len(call.frame))

\* C16: a parser that recognises a whole frame returns
\* U_ERROR_COMMON_SUCCESS, which is zero, has taken exactly the bytes of the
\* frame from the parse handle and has written the id of the frame; run on a
\* frame of another protocol it returns U_ERROR_COMMON_NOT_FOUND, which is
\* negative.
C16_SuccessIsZero ==
    \A p \in {"UBX", "NMEA", "RTCM"} :
        /\ (ParsedBy(p) /\ OwnFrame(p))
              => /\ ret = U_ERROR_COMMON_SUCCESS
                 /\ ret = 0
                 /\ hist.parsed = Len(call.frame)
                 /\ rx.id = IdOfFrame
        /\ (ParsedBy(p) /\ OtherFrame(p))
              => /\ ret = U_ERROR_COMMON_NOT_FOUND
                 /\ ret < 0

C16_Witness ==
    /\ ParsedBy("NMEA") /\ OwnFrame("NMEA")
    /\ call.src.tok # <<>>
    /\ ret = 0
    /\ hist.parsed = Len(call.frame)
    /\ rx.id = NmeaId(call.src.tok)

C16_WitnessRtcm == ParsedBy("RTCM") /\ OwnFrame("RTCM") /\ ret = 0 /\ rx.id.type = "RTCM"

C16_WitnessOther == ParsedBy("UBX") /\ OtherFrame("UBX") /\ call.proto = "NMEA" /\ ret < 0

\* The input is a non-empty proper prefix of a frame of the protocol of
\* parser p (for RTCM a frame of either make).
TruncatedFrame(p) ==
    /\ call.flipPos = 0
    /\ 0 < call.cut /\ call.cut < Len(call.frame)
    /\ call.proto = p \/ (p = "RTCM" /\ call.proto = "RTCM10403")
    /\ p = "NMEA" => Len(call.src.tok) <= U_GNSS_NMEA_MESSAGE_MATCH_LENGTH_CHARACTERS

\* C17: each of the three parsers, run on a non-empty proper prefix of a
\* valid frame of its protocol, returns timeout.
C17_TruncatedIsTimeout ==
    \A p \in {"UBX", "NMEA", "RTCM"} :
        (ParsedBy(p) /\ TruncatedFrame(p)) => ret = U_ERROR_COMMON_TIMEOUT

\* A UBX frame lacks its last byte.
C17_Witness ==
    /\ ParsedBy("UBX") /\ TruncatedFrame("UBX")
    /\ call.cut = Len(call.frame) - 1
    /\ ret = U_ERROR_COMMON_TIMEOUT

\* An NMEA sentence ends within its data, an RTCM frame within its CRC.
C17_WitnessNmea ==
    /\ ParsedBy("NMEA") /\ TruncatedFrame("NMEA")
    /\ call.src.data = <<65, 44, 66>>
    /\ call.cut = Len(call.src.tok) + 3
    /\ ret = U_ERROR_COMMON_TIMEOUT

C17_WitnessRtcm ==
    /\ ParsedBy("RTCM") /\ TruncatedFrame("RTCM")
    /\ call.cut = Len(call.frame) - 1
    /\ ret = U_ERROR_COMMON_TIMEOUT

\* The input is a wholly buffered sentence '$' token ',' data '*' h1 h2 e1 e2
\* with a token of at most U_GNSS_NMEA_MESSAGE_MATCH_LENGTH_CHARACTERS
\* characters: as it was made, or with one of h1, h2, e1, e2 changed.
SentenceWithTail ==
    /\ call.proto = "NMEA"
    /\ Len(call.src.tok) <= U_GNSS_NMEA_MESSAGE_MATCH_LENGTH_CHARACTERS
    /\ call.cut = Len(call.frame)
    /\ call.flipPos = 0 \/ call.flipPos >= Len(call.frame) - 3

\* h1 h2 are the upper-case hex digits, high nibble first, of the XOR of the
\* characters after '$' and before '*'.
DigitsRight ==
    LET b == ring["private"]
        x == XorOver(call.src.tok \o <<44>> \o call.src.data)
    IN /\ b[Len(b) - 3] = HexChars[(x \div 16) + 1]
       /\ b[Len(b) - 2] = HexChars[(x % 16) + 1]

\* e1 e2 are CR LF.
CrLfRight ==
    LET b == ring["private"]
    IN b[Len(b) - 1] = 13 /\ b[Len(b)] = 10

\* C18: the NMEA parser accepts a wholly buffered sentence exactly when its
\* two hex digits are those of the XOR of the characters between '$' and '*'
\* and CR LF follow; it then reports NMEA with the token as id; a wrong digit
\* or a wrong character in the place of CR or LF gives not-found.
C18_NmeaAccepted ==
    (ParsedBy("NMEA") /\ SentenceWithTail)
        => /\ (ret = U_ERROR_COMMON_SUCCESS) <=> (DigitsRight /\ CrLfRight)
           /\ (ret = U_ERROR_COMMON_SUCCESS) => (rx.id = NmeaId(call.src.tok))
           /\ ~(DigitsRight /\ CrLfRight) => (ret = U_ERROR_COMMON_NOT_FOUND)

\* "$GPGGA,A,B*hh" with the comma of the data in the checksum is accepted.
C18_Witness ==
    /\ ParsedBy("NMEA") /\ SentenceWithTail
    /\ call.src = [tok |-> <<71, 78, 71, 71, 65>>, data |-> <<65, 44, 66>>]
    /\ DigitsRight /\ CrLfRight
    /\ ret = U_ERROR_COMMON_SUCCESS
    /\ rx.id = NmeaId(<<71, 78, 71, 71, 65>>)

\* The second digit is wrong; LF is not there.
C18_WitnessDigit ==
    /\ ParsedBy("NMEA") /\ SentenceWithTail
    /\ call.flipPos = Len(call.frame) - 2
    /\ ret = U_ERROR_COMMON_NOT_FOUND

C18_WitnessLf ==
    /\ ParsedBy("NMEA") /\ SentenceWithTail
    /\ call.flipPos = Len(call.frame)
    /\ DigitsRight
    /\ ret = U_ERROR_COMMON_NOT_FOUND

\* A digit A..F of a right checksum is given in lower case.
C18_WitnessLowerCase ==
    /\ ParsedBy("NMEA") /\ SentenceWithTail
    /\ call.flipPos \in {Len(call.frame) - 3, Len(call.frame) - 2}
    /\ call.frame[call.flipPos] \in 65..70
    /\ call.flipVal = call.frame[call.flipPos] + 32
    /\ ret = U_ERROR_COMMON_NOT_FOUND

\* The bytes at the cursor are '$' and more than
\* U_GNSS_NMEA_MESSAGE_MATCH_LENGTH_CHARACTERS characters without a ','.
TokenTooLong ==
    LET b == ring["private"]
    IN /\ Len(b) >= U_GNSS_NMEA_MESSAGE_MATCH_LENGTH_CHARACTERS + 2
       /\ b[1] = 36
       /\ \A i \in 2..(U_GNSS_NMEA_MESSAGE_MATCH_LENGTH_CHARACTERS + 2) : b[i] # 44

\* C19: the NMEA parser rejects with not-found a sentence whose token is
\* longer than U_GNSS_NMEA_MESSAGE_MATCH_LENGTH_CHARACTERS, and whatever the
\* input it writes at most that many token characters to the id, so that the
\* terminator behind them is at index
\* U_GNSS_NMEA_MESSAGE_MATCH_LENGTH_CHARACTERS at most.
C19_TokenBounded ==
    ParsedBy("NMEA")
        => /\ Len(rx.id.nmea) <= U_GNSS_NMEA_MESSAGE_MATCH_LENGTH_CHARACTERS
           /\ TokenTooLong => (ret = U_ERROR_COMMON_NOT_FOUND)

\* A whole sentence with a token of nine characters: eight are written.
C19_Witness ==
    /\ ParsedBy("NMEA") /\ call.proto = "NMEA" /\ WholeFrame
    /\ Len(call.src.tok) = LongTokenLen
    /\ TokenTooLong
    /\ Len(rx.id.nmea) = U_GNSS_NMEA_MESSAGE_MATCH_LENGTH_CHARACTERS
    /\ ret = U_ERROR_COMMON_NOT_FOUND

\* A token of eight characters is taken whole.
C19_WitnessFull ==
    /\ ParsedBy("NMEA") /\ call.proto = "NMEA" /\ WholeFrame
    /\ Len(call.src.tok) = U_GNSS_NMEA_MESSAGE_MATCH_LENGTH_CHARACTERS
    /\ rx.id = NmeaId(call.src.tok)
    /\ ret = U_ERROR_COMMON_SUCCESS

\* The byte of the input between '$' and '*' that was changed to a value
\* outside 32..126 is buffered.
NonPrintableMet ==
    /\ call.proto = "NMEA"
    /\ call.flipPos > 1
    /\ call.flipPos < Len(call.frame) - 4
    /\ call.flipVal < 32 \/ call.flipVal > 126
    /\ call.cut >= call.flipPos

\* C20: the NMEA parser answers a character outside 32..126 between '$'
\* and '*' with not-found, also when it is the last byte buffered.
C20_NonPrintableRejected ==
    (ParsedBy("NMEA") /\ NonPrintableMet) => ret = U_ERROR_COMMON_NOT_FOUND

\* The character is in the data and is the last byte buffered.
C20_Witness ==
    /\ ParsedBy("NMEA") /\ NonPrintableMet
    /\ call.flipPos > Len(call.src.tok) + 2
    /\ call.cut = call.flipPos
    /\ ret = U_ERROR_COMMON_NOT_FOUND

\* The character is in the token and is the last byte buffered.
C20_WitnessToken ==
    /\ ParsedBy("NMEA") /\ NonPrintableMet
    /\ call.flipPos <= Len(call.src.tok) + 1
    /\ call.cut = call.flipPos
    /\ ret = U_ERROR_COMMON_NOT_FOUND

\* C21 as stated: the RTCM parser accepts a wholly buffered frame of RTCM
\* 10403 (0xD3, length n, n bytes, CRC-24Q over all of them) with nothing
\* behind it, taking n + 6 bytes and reporting RTCM, and answers not-found
\* when a byte behind the length has another value.
C21_AsStated ==
    (ParsedBy("RTCM") /\ call.proto = "RTCM10403" /\ call.cut = Len(call.frame))
        => /\ call.flipPos = 0
                => /\ ret = U_ERROR_COMMON_SUCCESS
                   /\ hist.parsed = Len(call.src.payload) + 6
                   /\ rx.id.type = "RTCM"
           /\ call.flipPos > 3 => ret = U_ERROR_COMMON_NOT_FOUND

(***************************************************************************)
(* The matching (SpecMatch).                                               *)
(***************************************************************************)
Matched == pc = "matched"
Wanted == ret = 1

ClassOf(id) == id.ubx \div 256
IdOf(id) == id.ubx % 256

\* C22: with a wanted and an actual UBX id, the actual id is wanted exactly
\* when each byte of the wanted id is 0xFF or equal to that byte of the
\* actual id; 0xFF in the actual id stands for itself only.
C22_UbxWildcard ==
    (Matched /\ call.actual.type = "UBX" /\ call.wanted.type = "UBX")
        => (Wanted <=>
              /\ ClassOf(call.wanted) = 255 \/ ClassOf(call.wanted) = ClassOf(call.actual)
              /\ IdOf(call.wanted) = 255 \/ IdOf(call.wanted) = IdOf(call.actual))

\* Wanted class 0xFF with id 7 takes class 1 id 7.
C22_Witness ==
    /\ Matched /\ Wanted
    /\ call.wanted = UbxId(255 * 256 + 7)
    /\ call.actual = UbxId(1 * 256 + 7)

\* Actual class 0xFF with id 7 is not taken for wanted class 1 id 7.
C22_WitnessNotSymmetric ==
    /\ Matched /\ ~Wanted
    /\ call.wanted = UbxId(1 * 256 + 7)
    /\ call.actual = UbxId(255 * 256 + 7)

\* C23: with a wanted and an actual NMEA id, an empty wanted string takes
\* every actual id; otherwise the actual id is wanted exactly when at every
\* position of the wanted string the actual id has a character and the
\* wanted character is '?' or that character.
C23_NmeaWildcard ==
    (Matched /\ call.actual.type = "NMEA" /\ call.wanted.type = "NMEA")
        => LET w == call.wanted.nmea
               a == call.actual.nmea
           IN /\ w = <<>> => Wanted
              /\ Wanted <=> /\ Len(w) <= Len(a)
                              /\ \A i \in 1..Len(w) : w[i] = 63 \/ w[i] = a[i]

\* "G?P" takes "GGP".
C23_Witness ==
    /\ Matched /\ Wanted
    /\ call.wanted = NmeaId(<<71, 63, 80>>)
    /\ call.actual = NmeaId(<<71, 71, 80>>)

\* "?" does not take the empty id; "P" does not take "G".
C23_WitnessNoCharacter ==
    /\ Matched /\ ~Wanted
    /\ call.wanted = NmeaId(<<63>>)
    /\ call.actual = NmeaId(<<>>)

\* The types of one protocol.
Concrete == {"UBX", "NMEA", "RTCM"}

\* C24: ANY takes every item, UNKNOWN ones too; ALL takes exactly the items
\* that are not UNKNOWN; UNKNOWN takes exactly the UNKNOWN items; RTCM takes
\* exactly the RTCM items of the same number; an id of one protocol never
\* takes an item of another.
C24_TypeMatching ==
    Matched
        => /\ call.wanted.type = "ANY" => Wanted
           /\ call.wanted.type = "ALL" => (Wanted <=> call.actual.type # "UNKNOWN")
           /\ call.wanted.type = "UNKNOWN" => (Wanted <=> call.actual.type = "UNKNOWN")
           /\ call.wanted.type = "RTCM"
                => (Wanted <=> (call.actual.type = "RTCM" /\ call.actual.rtcm = call.wanted.rtcm))
           /\ (call.wanted.type \in Concrete /\ call.actual.type # call.wanted.type) => ~Wanted

\* ANY takes an UNKNOWN item.
C24_Witness ==
    /\ Matched /\ Wanted
    /\ call.wanted.type = "ANY"
    /\ call.actual.type = "UNKNOWN"

\* ALL does not.
C24_WitnessAll ==
    /\ Matched /\ ~Wanted
    /\ call.wanted.type = "ALL"
    /\ call.actual.type = "UNKNOWN"

\* RTCM 1005 does not take RTCM 1077.
C24_WitnessRtcm ==
    /\ Matched /\ ~Wanted
    /\ call.wanted = RtcmId(1005)
    /\ call.actual = RtcmId(1077)

(***************************************************************************)
(* The stream filler.                                                      *)
(***************************************************************************)
\* The bytes a step takes from the transport (none when the device adds).
BytesRead == Max(Len(uartRx) - Len(uartRx'), 0)

\* C25 as stated: in one pass of uGnssPrivateStreamFillRingBuffer no more
\* bytes are read from the transport than the ring buffer had room for just
\* before, nor more than the temporary buffer holds; nothing is read when
\* there is no room.
C25_AsStated ==
    [][pc = "fill"
         => /\ BytesRead <= uRingBufferAvailableSizeMax(ring, locked)
            /\ BytesRead <= TemporaryBufferLength]_vars

(***************************************************************************)
(* The receiver out of memory.                                             *)
(***************************************************************************)
\* C30 as stated: once malloc() has failed for a matched frame, the pass
\* being over, the call takes no further pass: it returns
\* U_ERROR_COMMON_NO_MEMORY.
C30_AsStated ==
    [][(pc = "rxCond" /\ pc' # pc /\ ~rxArgs.bufGiven
            /\ rx.errorCodeOrLength = U_ERROR_COMMON_NO_MEMORY)
         => (pc' = rxArgs.retPc /\ ret' = U_ERROR_COMMON_NO_MEMORY)]_vars
\* C27 as stated: the filler returns, whatever the device does and whatever
\* timeoutMs and maxTimeMs are.
C27_AsStated == <>(pc = "filled")

\* The filler returns when it was given a time limit for receiving, no time
\* to wait, or a ring buffer that can fill up.
C27_BoundedReturns ==
    ((call.maxTimeMs > 0) \/ (call.timeoutMs = 0) \/ call.lockMsg) => <>(pc = "filled")

\* C26: a task of the filler about to add to the ring buffer finds in its
\* temporary buffer the bytes it read; the message receive task uses
\* pMsgReceive->pTemporaryBuffer and the application task
\* pInstance->pTemporaryBuffer, never both the same.
C26_OwnScratchBuffer ==
    \A t \in Fillers :
        tasks[t].pc = "add" =>
            /\ Take(fill[tasks[t].pTemporaryBuffer], tasks[t].receiveSize) = tasks[t].read
            /\ tasks[t].pTemporaryBuffer = (IF t = "msgReceive" THEN "msgReceive" ELSE "instance")
            /\ \A u \in Fillers \ {t} :
                  tasks[u].pc = "add" => tasks[u].pTemporaryBuffer # tasks[t].pTemporaryBuffer

\* Both tasks have read bytes and not yet added them, the message receive
\* task after the application task.
C26_Witness ==
    /\ \A t \in Fillers : tasks[t].pc = "add" /\ tasks[t].read # <<>>
    /\ tasks["app"].read[1] < tasks["msgReceive"].read[1]

InOrder(s) == \A i \in 1..(Len(s) - 1) : s[i] < s[i + 1]

\* C28 as stated: what a reader finds in the ring buffer is in the order
\* in which the transport delivered it, no byte twice.
C28_AsStated == \A h \in Handles : InOrder(ring[h])

EndsWith(s, d) == (Len(s) >= Len(d)) /\ (SubSeq(s, Len(s) - Len(d) + 1, Len(s)) = d)

\* C29 as stated: while uGnssPrivateReceiveStreamMessage holds its read
\* handle ("private") locked, the bytes a pass of the filler takes from the
\* transport become readable through the other handle ("msg").
C29_AsStated ==
    [][(pc = "fill" /\ locked["private"] /\ ~locked["msg"] /\ BytesRead > 0)
          => EndsWith(ring'["msg"], Take(uartRx, BytesRead))]_vars

\* The same on I2C, where no more is read than the locked handle leaves
\* room for.
C29_I2cReadIsAdded ==
    [][(pc = "fill" /\ locked["private"] /\ ~locked["msg"] /\ BytesRead > 0
          /\ call.transport = "I2C")
          => EndsWith(ring'["msg"], Take(uartRx, BytesRead))]_vars

\* C31 as stated: a call of the filler whose last pass read bytes that the
\* forced add then refused returns a negative error code.
C31_AsStated ==
    [][(pc = "fill" /\ pc' = "filled" /\ BytesRead > 0
          /\ ~uRingBufferForceAdd(ring, locked, Take(uartRx, BytesRead)).ok)
          => ret' < 0]_vars

\* C32 as stated: over AT, sendReceiveUbxMessageAt returns U_GNSS_ERROR_NACK
\* only for a response that is a UBX-ACK-NACK (class 0x05, id 0x00) whose
\* body is the expected class and id.
C32_AsStated ==
    (Returned /\ (call.transport = "AT") /\ hist.sent
       /\ (hist.srRet = U_GNSS_ERROR_NACK))
        => hist.atResponse = UbxFrame(5, 0, <<Response(call).cls, Response(call).id>>)

\* C33 as stated: uNetworkPrivateChangeStateCell called to take the
\* interface down without a configuration, on a device with a cellular
\* context, calls uCellNetDisconnect and returns its result.
C33_AsStated ==
    ((pc = "returned") /\ (call.fn = "changeStateCell") /\ (call.instanceError = 0)
       /\ call.pContext /\ ~call.upNotDown /\ ~call.pCfg.given)
        => (resp = "disconnect") /\ (ret = call.netResult)

\* C34 as stated: uGnssPrivateSetProtocolOut returns success only when the
\* second poll of UBX-MON-MSGPP succeeded and shows three messages more
\* than the first.
C34_AsStated ==
    ((pc = "returned") /\ (call.fn = "setProtocolOut")
       /\ (ret = U_ERROR_COMMON_SUCCESS))
        => (call.poll2 = 120) /\ (call.count2 - call.count1 = 3)

\* The frame returned as the response on a stream is one the device sent
\* during the call.
ResponseFromDevice ==
    (Returned /\ (call.fn = "sendrecv") /\ HasStreamHandle(call.transport) /\ SrWaits
       /\ (hist.srRet >= 0) /\ (hist.matched # <<>>))
        => \E i \in DOMAIN DeviceScript(call.dev) : DeviceScript(call.dev)[i] = hist.matched

\* C35: when sendReceiveUbxMessage awaits a response on a stream, the
\* private read handle is locked and empty at the moment the command is
\* sent, and the frame returned as the response is one the device sent
\* during the call, never what the handle held before.
C35_FlushBeforeSend ==
    [][/\ ((~hist.sent) /\ hist'.sent /\ SrWaits /\ HasStreamHandle(call.transport)
             /\ (pc' # "done"))
            => ((ring'["private"] = <<>>) /\ locked'["private"])
       /\ ResponseFromDevice']_vars

\* A response was returned by a call that found an older frame of the
\* same type on the handle.
C35_Witness ==
    /\ Returned /\ (call.fn = "sendrecv") /\ HasStreamHandle(call.transport) /\ SrWaits
    /\ call.ring0 = FramePvt
    /\ hist.srRet >= 0
    /\ hist.matched = FramePvt

\* The device stays silent and the older frame is not returned.
C35_WitnessOldDropped ==
    /\ Returned /\ (call.fn = "sendrecv") /\ HasStreamHandle(call.transport) /\ SrWaits
    /\ call.ring0 = FramePvt
    /\ call.dev = "silent"
    /\ hist.srRet = U_ERROR_COMMON_TIMEOUT

\* The pass of the receive loop about to be run decodes.
Decoding ==
    (pc = "rxProcess") /\ (Len(ring[rxArgs.handle]) > 0) /\ (RxDiscard.discardSize = 0)

\* C36: a decode that returns a frame leaves the frame's own id in the
\* caller's message id; a decode that returns anything else leaves the
\* caller's id as it was, so that until a frame is matched every pass of
\* uGnssPrivateReceiveStreamMessage decodes with the id the caller gave.
C36_WantedIdKept ==
    [][/\ Decoding =>
             IF hist'.decRc > 0
                 THEN rx'.id = uRingBufferParseHandle(hist'.decRest).id
             ELSE rx'.id = rx.id
       /\ ((pc' = "rxCond") /\ ~hist'.found) => (rx'.id = rxArgs'.wanted)]_vars

\* A decode with a wildcard id threw a frame away, returned timeout and
\* left the wildcard.
C36_Witness ==
    /\ pc = "rxCond"
    /\ rxArgs.wanted = AnyUbx
    /\ hist.decRc = U_ERROR_COMMON_TIMEOUT
    /\ hist.decIn # hist.decRest
    /\ rx.id = AnyUbx

\* A decode with a wildcard id returned a frame and its id.
C36_WitnessMatched ==
    /\ pc = "rxCond"
    /\ rxArgs.wanted = AnyUbx
    /\ hist.decRc > 0
    /\ rx.id = UbxId(263)

\* A decode returned NACK and left the caller's id.
C36_WitnessNack ==
    /\ pc = "rxCond"
    /\ hist.decRc = U_GNSS_ERROR_NACK
    /\ rx.id = rxArgs.wanted

\* C37 as stated: when uGnssPrivateSendReceiveUbxMessageAlloc returns a
\* negative error code, *ppResponseBody does not point at a buffer the
\* library allocated.
C37_AsStated ==
    (Returned /\ (call.fn = "sendrecv") /\ (call.respMode = "alloc") /\ (ret < 0))
        => ~hist.bodyHeld

\* The same on the streaming transports alone.
C37_StreamFreed ==
    (Returned /\ (call.fn = "sendrecv") /\ (call.respMode = "alloc") /\ (ret < 0)
       /\ HasStreamHandle(call.transport))
        => ~hist.bodyHeld

\* C38 as stated: after uGnssPrivateMessageIdToPrivate has succeeded for an
\* NMEA id, the array id.nmea holds a terminating zero.
C38_AsStated ==
    ((pc = "returned") /\ (call.fn = "idToPrivate") /\ (call.type = "NMEA")
       /\ (ret = U_ERROR_COMMON_SUCCESS))
        => \E i \in DOMAIN resp.nmea : resp.nmea[i] = 0

\* The same for public ids of at most
\* U_GNSS_NMEA_MESSAGE_MATCH_LENGTH_CHARACTERS characters.
C38_ShortIdTerminated ==
    ((pc = "returned") /\ (call.fn = "idToPrivate") /\ (call.type = "NMEA")
       /\ (ret = U_ERROR_COMMON_SUCCESS)
       /\ (Len(call.pNmea) <= U_GNSS_NMEA_MESSAGE_MATCH_LENGTH_CHARACTERS))
        => \E i \in DOMAIN resp.nmea : resp.nmea[i] = 0

\* C39: a non-empty wanted NMEA id of k characters matches an actual id
\* exactly when the actual id has at least k characters and its first k
\* agree with the wanted ones or meet a '?'; what follows them in the
\* actual id plays no part, and a shorter actual id never matches.
C39_NmeaPrefixMatch ==
    (Matched /\ (call.actual.type = "NMEA") /\ (call.wanted.type = "NMEA")
       /\ (call.wanted.nmea # <<>>))
        => LET k == Len(call.wanted.nmea)
               start == Take(call.actual.nmea, k)
           IN /\ (Len(call.actual.nmea) < k) => ~Wanted
              /\ (Len(call.actual.nmea) >= k) =>
                    (Wanted <=> \A i \in 1..k :
                                   call.wanted.nmea[i] \in {63, start[i]})

\* "G" takes "GP": the second character of the actual id is not looked at.
C39_Witness ==
    /\ Matched /\ Wanted
    /\ call.wanted = NmeaId(<<71>>)
    /\ call.actual = NmeaId(<<71, 80>>)

\* "GP" does not take "G", nor does "G?".
C39_WitnessShorter ==
    /\ Matched /\ ~Wanted
    /\ call.wanted = NmeaId(<<71, 63>>)
    /\ call.actual = NmeaId(<<71>>)

\* A numeric argument of `config set` lies outside the range its error
\* message names.
NumberOutOfRange ==
    IF call.fn = "setConfigCloudLocate"
        THEN \/ call.cellRegistrationTimeout \notin 1..300
             \/ call.firstMessage \notin 0..60
             \/ call.compactTimeout \notin 0..300
             \/ call.navpvt \notin {0, 1}
             \/ call.fallbackTimeout \notin 0..60
    ELSE \/ call.cellRegistrationTimeout \notin 1..300
         \/ call.numWifiAP \notin 5..15
         \/ call.wifiApSignalStrength \notin -100..0

SetConfigReturned ==
    /\ pc = "returned"
    /\ call.fn \in {"setConfigCloudLocate", "setConfigCellLocate"}
    /\ call.argc = (IF call.fn = "setConfigCloudLocate" THEN 10 ELSE 7)

\* C40 as stated: `config set` with all its arguments and a number out of
\* range returns 1 and stores nothing.
C40_AsStated ==
    (SetConfigReturned /\ NumberOutOfRange)
        => /\ ret = 1
           /\ resp = (IF call.fn = "setConfigCloudLocate" THEN CloudLocateConfig0
                      ELSE CellLocateConfig0)

\* The part of C40 that holds: a string that does not fit, a
\* FallbackNavpvtStatus other than 0 and 1, and a WifiApSignalStrength
\* outside -100..0 are rejected, and nothing is stored.
C40_CheckedArguments ==
    (/\ SetConfigReturned
     /\ IF call.fn = "setConfigCloudLocate"
            THEN \/ call.usernameLen >= USERNAME_MAXLEN
                 \/ call.apnLen >= APN_MAXLEN
                 \/ call.navpvt \notin {0, 1}
         ELSE \/ call.urlLen >= CELL_LOCATE_SERVER_URL_MAXLEN
              \/ call.tokenLen >= CELL_LOCATE_TOKEN_MAXLEN
              \/ call.wifiApSignalStrength \notin -100..0)
        => /\ ret = 1
           /\ resp = (IF call.fn = "setConfigCloudLocate" THEN CloudLocateConfig0
                      ELSE CellLocateConfig0)

====
